---- MODULE Spec2Model ----
(***************************************************************************)
(* A model of the lazy expression layer of python-blosc2                   *)
(* (src/blosc2/lazyexpr.py) and of the remote array helpers                *)
(* (src/blosc2/c2array.py).                                                *)
(*                                                                         *)
(* Expressions are Python strings that the code scans character by         *)
(* character; they are modelled as sequences of one-character strings so   *)
(* that the scanner of fuse_expressions is translated index by index.      *)
(* An operand table is a Python dict whose keys are "o0", "o1", ... in     *)
(* insertion order; it is modelled as the sequence of its values, the      *)
(* entry at position i+1 being the value bound to "o<i>".                  *)
(***************************************************************************)
EXTENDS Integers, Sequences, FiniteSets, TLC

(***************************************************************************)
(* Bounds of the model.                                                    *)
(***************************************************************************)
MaxNodes == 2

MaxExprLen == 30

MaxCalls == 4

\* Evaluator: the largest number of dimensions of an array and the number
\* of evaluator calls made on one set of inputs.
MaxNdim == 2

MaxEvalCalls == 2

(***************************************************************************)
(* Characters and decimal rendering (Python f-strings and int()).          *)
(***************************************************************************)
Digits == <<"0", "1", "2", "3", "4", "5", "6", "7", "8", "9">>

DigitChars == {Digits[i] : i \in 1..10}

DigitVal(c) == (CHOOSE i \in 1..10 : Digits[i] = c) - 1

\* str(n) for a natural number below one hundred, as a character sequence.
Str(n) == IF n < 10 THEN <<Digits[n + 1]>>
          ELSE <<Digits[(n \div 10) + 1], Digits[(n % 10) + 1]>>

\* int(s): the value of a non-empty run of decimal digits, -1 for the
\* ValueError Python raises on anything else the scanner can hand over.
RECURSIVE IntAcc(_, _, _)
IntAcc(s, i, acc) ==
    IF i > Len(s) THEN acc
    ELSE IF s[i] \notin DigitChars THEN -1
    ELSE IntAcc(s, i + 1, acc * 10 + DigitVal(s[i]))

ParseInt(s) == IF Len(s) = 0 THEN -1 ELSE IntAcc(s, 1, 0)

\* Python slice expr[a:b] on 0-based indexes, clamped to the string.
PySlice(s, a, b) ==
    LET hi == IF b > Len(s) THEN Len(s) ELSE b
    IN  IF a >= hi THEN <<>> ELSE SubSeq(s, a + 1, hi)

\* The placeholder name "o<n>".
OName(n) == <<"o">> \o Str(n)

(***************************************************************************)
(* Operands.  Arrays are identified by their identity (update_expr         *)
(* switches the overloaded == off so that list.index compares by           *)
(* identity); scalars are rendered by value.                               *)
(***************************************************************************)
Arrays == {"A", "B", "C"}

Scalars == {2}

Arr(a) == [t |-> "arr", id |-> a]

Sca(v) == [t |-> "scalar", v |-> v]

\* A LazyExpr passed by value of its two fields.
Lazy(nd) == [t |-> "expr", expression |-> nd.expression, operands |-> nd.operands]

NoValue == [t |-> "none"]

\* list(d.values()).index(v): the 0-based position of the first entry
\* equal to v, -1 for the ValueError of a missing value.
IndexOf(operands, v) ==
    IF \E i \in 1..Len(operands) : operands[i] = v
    THEN (CHOOSE i \in 1..Len(operands) :
             operands[i] = v /\ \A j \in 1..(i - 1) : operands[j] # v) - 1
    ELSE -1

(***************************************************************************)
(* fuse_operands(operands1, operands2)                                     *)
(* new: the operands of operands2 that are not in operands1, in table      *)
(* order; they get the names o<len(operands1)>, o<len(operands1)+1>, ...   *)
(* dup: for each name of operands2 whose value is in operands1, the name   *)
(* it has there (-1 when it is not a duplicate).                           *)
(***************************************************************************)
RECURSIVE FuseNew(_, _, _)
FuseNew(operands1, operands2, k) ==
    IF k > Len(operands2) THEN <<>>
    ELSE IF IndexOf(operands1, operands2[k]) >= 0
         THEN FuseNew(operands1, operands2, k + 1)
         ELSE <<operands2[k]>> \o FuseNew(operands1, operands2, k + 1)

fuse_operands(operands1, operands2) ==
    [new |-> FuseNew(operands1, operands2, 1),
     dup |-> [k \in 0..(Len(operands2) - 1) |-> IndexOf(operands1, operands2[k + 1])]]

(***************************************************************************)
(* fuse_expressions(expr, new_base, dup_op)                                *)
(* The scanner walks expr by 0-based index i; expr[i] of the code is       *)
(* expr[i + 1] here.  The result is [raised, expr]; raised stands for the  *)
(* ValueError of int() or the IndexError of expr[i + j].                   *)
(***************************************************************************)
Delims == {" ", ")", "["}

\* The inner loop: the first k with expr[j + k] a delimiter, -1 when the
\* loop ends without a break.
FirstDelim(expr, j) ==
    IF \E k \in 0..(Len(expr) - j - 1) : expr[j + k + 1] \in Delims
    THEN CHOOSE k \in 0..(Len(expr) - j - 1) :
             /\ expr[j + k + 1] \in Delims
             /\ \A m \in 0..(k - 1) : expr[j + m + 1] \notin Delims
    ELSE -1

FuseFail == [raised |-> TRUE, expr |-> <<>>]

RECURSIVE FuseScan(_, _, _, _, _, _, _)
FuseScan(expr, new_base, dup_op, i, new_expr, old_base, prev_pos) ==
    IF i >= Len(expr) THEN [raised |-> FALSE, expr |-> new_expr]
    ELSE IF expr[i + 1] # "o"
    THEN FuseScan(expr, new_base, dup_op, i + 1, Append(new_expr, expr[i + 1]),
                  old_base, prev_pos)
    ELSE IF i > 0 /\ expr[i] # " " /\ expr[i] # "("
    THEN \* Not a variable
         FuseScan(expr, new_base, dup_op, i + 1, Append(new_expr, "o"),
                  old_base, prev_pos)
    ELSE LET k  == FirstDelim(expr, i + 1)
             j  == IF k >= 0 THEN k ELSE i + 1
         IN  IF i + j >= Len(expr) THEN FuseFail
             ELSE
             LET j2      == IF expr[i + j + 1] = ")" THEN j - 1 ELSE j
                 old_pos == ParseInt(PySlice(expr, i + 1, i + j2 + 1))
                 skip    == IF i + j2 + 1 > i + 1 THEN i + j2 + 1 ELSE i + 1
                 isdup   == old_pos \in DOMAIN dup_op /\ dup_op[old_pos] >= 0
                 seen    == old_pos \in DOMAIN prev_pos
                 new_pos == IF seen THEN prev_pos[old_pos] ELSE old_base + new_base
             IN  IF old_pos < 0 THEN FuseFail
                 ELSE IF isdup
                 THEN FuseScan(expr, new_base, dup_op, skip,
                               new_expr \o OName(dup_op[old_pos]), old_base, prev_pos)
                 ELSE FuseScan(expr, new_base, dup_op, skip,
                               new_expr \o OName(new_pos),
                               IF seen THEN old_base ELSE old_base + 1,
                               IF seen THEN prev_pos
                               ELSE (old_pos :> new_pos) @@ prev_pos)

fuse_expressions(expr, new_base, dup_op) ==
    FuseScan(expr, new_base, dup_op, 0, <<>>, 0, <<>>)

(***************************************************************************)
(* Operators and functions as the texts the code pastes into expressions.  *)
(***************************************************************************)
OpAdd == <<"+">>

OpSub == <<"-">>

OpOr == <<"o", "r">>

OpNot == <<"n", "o", "t">>

OpSlice == <<"[", "]">>

FnSin == <<"s", "i", "n">>

FnArctan2 == <<"a", "r", "c", "t", "a", "n", "2">>

BinOps == {OpSub}

\* f"{value}" of a scalar.
Render(v) == Str(v.v)

\* f"({x} {op} {y})"
Paren(x, op, y) == <<"(">> \o x \o <<" ">> \o op \o <<" ">> \o y \o <<")">>

\* d.update(new): the k-th new operand is stored under o<base + k>; an
\* existing name is overwritten, the next free name is appended.
RECURSIVE DictUpdate(_, _, _)
DictUpdate(operands, base, new) ==
    IF Len(new) = 0 THEN operands
    ELSE DictUpdate(IF base < Len(operands)
                    THEN [operands EXCEPT ![base + 1] = new[1]]
                    ELSE Append(operands, new[1]),
                    base + 1, Tail(new))

(***************************************************************************)
(* LazyExpr.update_expr(self, new_op) with new_op = (value1, op, value2).  *)
(* self is the node being mutated (its two fields); the result carries     *)
(* the fields of self after the call and whether the call raised.          *)
(***************************************************************************)
Done(expression, operands) ==
    [raised |-> FALSE, expression |-> expression, operands |-> operands]

Raised(self) ==
    [raised |-> TRUE, expression |-> self.expression, operands |-> self.operands]

\* The two branches that look value up among the operands of the LazyExpr
\* `of` and add it to self when it is missing.
LookupOrAdd(self, of, value) ==
    LET idx == IndexOf(of.operands, value.id)
    IN  IF idx >= 0
        THEN [name |-> OName(idx), operands |-> self.operands]
        ELSE [name |-> OName(Len(self.operands)),
              operands |-> Append(self.operands, value.id)]

update_expr(self, value1, op, value2) ==
    IF value1.t = "expr" /\ value2.t = "expr"
    THEN LET f == fuse_operands(value1.operands, value2.operands)
             e == fuse_expressions(value2.expression, Len(value1.operands), f.dup)
         IN  IF e.raised THEN Raised(self)
             ELSE Done(Paren(self.expression, op, e.expr),
                       DictUpdate(self.operands, Len(value1.operands), f.new))
    ELSE IF value1.t = "expr"
    THEN IF op = OpNot
         THEN Done(<<"(">> \o op \o self.expression \o <<")">>, self.operands)
         ELSE IF value2.t = "scalar"
         THEN Done(Paren(self.expression, op, Render(value2)), self.operands)
         ELSE LET l == LookupOrAdd(self, value1, value2)
              IN  Done(Paren(self.expression, op, l.name), l.operands)
    ELSE IF value1.t = "scalar"
         THEN Done(Paren(Render(value1), op, self.expression), self.operands)
         ELSE LET l == LookupOrAdd(self, value2, value1)
              IN  IF op = OpSlice
                  THEN Done(<<"(">> \o l.name \o <<"[">> \o self.expression \o <<"]", ")">>,
                            l.operands)
                  ELSE Done(Paren(l.name, op, self.expression), l.operands)

(***************************************************************************)
(* LazyExpr.__init__(self, new_op) for the argument shapes the operators   *)
(* of arrays and the element functions pass.  A fresh object has neither   *)
(* field, so reading self.expression before it is assigned raises.         *)
(***************************************************************************)
O0 == OName(0)

O1 == OName(1)

Call1(fn, x) == fn \o <<"(">> \o x \o <<")">>

Call2(fn, x, sep, y) == fn \o <<"(">> \o x \o sep \o y \o <<")">>

LazyExprInit(value1, op, value2) ==
    IF value2.t = "none"
    THEN IF value1.t = "expr"
         THEN [raised |-> TRUE, expression |-> <<>>, operands |-> <<>>]
         ELSE Done(Call1(op, O0), <<value1.id>>)
    ELSE IF op = FnArctan2
    THEN IF value2.t = "scalar"
         THEN Done(Call2(op, O0, <<",", " ">>, Render(value2)), <<value1.id>>)
         ELSE IF value1.t = "scalar"
         THEN Done(Call2(op, Render(value1), <<" ", ",", " ">>, O0), <<value2.id>>)
         ELSE Done(Call2(op, O0, <<",", " ">>, O1), <<value1.id, value2.id>>)
    ELSE IF value2.t = "scalar"
    THEN Done(Paren(O0, op, Render(value2)), <<value1.id>>)
    ELSE IF value1.t = "scalar"
    THEN Done(Paren(Render(value1), op, O0), <<value2.id>>)
    ELSE IF value1 = value2
    THEN Done(Paren(O0, op, O0), <<value1.id>>)
    ELSE IF value1.t = "expr"
    THEN update_expr([expression |-> value1.expression, operands |-> <<value2.id>>],
                     value1, op, value2)
    ELSE IF value2.t = "expr"
    THEN update_expr([expression |-> value2.expression, operands |-> <<value1.id>>],
                     value1, op, value2)
    ELSE Done(Paren(O0, op, O1), <<value1.id, value2.id>>)

(***************************************************************************)
(* State of the expression layer.                                          *)
(*   nodes   the LazyExpr objects created so far; a node's identity is its *)
(*           position, and the operators return the node they were         *)
(*           applied to (update_expr ends with "return self")              *)
(*   disable_overloaded_equal   blosc2._disable_overloaded_equal           *)
(*   last    the most recent call: its receiver and argument as they were  *)
(*           when it was made, whether it raised and the node it returned  *)
(*   calls   the number of calls made so far                               *)
(***************************************************************************)
VARIABLES nodes, disable_overloaded_equal, last, calls,
          ev_operands, ev_item, ev_out, ev_args, ev_result,
          store, sv_arrays, sv_node, sv_urlpath, sv_result,
          udf_run, loop,
          subscriber_data, threads, requests, c2array

exprVars == <<nodes, disable_overloaded_equal, last, calls>>

\* The inputs and the results of the evaluator calls.
evVars == <<ev_operands, ev_item, ev_out, ev_args, ev_result>>

\* The files, the node being saved and the outcome of save and open.
svVars == <<store, sv_arrays, sv_node, sv_urlpath, sv_result>>

\* A call of LazyUDF.eval and a chunk loop of an evaluation strategy, step
\* by step.
runVars == <<udf_run, loop>>

\* The remote side: the module-level _subscriber_data of c2array, the
\* threads using it, the requests sent and the C2Array being constructed.
remoteVars == <<subscriber_data, threads, requests, c2array>>

\* No call of LazyUDF.eval and no chunk loop under way.
RunIdle ==
    /\ udf_run = [pc |-> "idle"]
    /\ loop = [pc |-> "idle"]

\* _subscriber_data = {} at import, no thread, no request, no C2Array.
RemoteIdle ==
    /\ subscriber_data = [t |-> "empty"]
    /\ threads = <<>>
    /\ requests = <<>>
    /\ c2array = [pc |-> "idle"]

Node(r) == [expression |-> r.expression, operands |-> r.operands]

NoNode == [expression |-> <<>>, operands |-> <<>>]

NoCall == [kind |-> "none", self |-> 0, op |-> <<>>, pre |-> NoNode,
           arg |-> NoValue, raised |-> FALSE, result |-> 0]

NoNodes ==
    /\ nodes = <<>>
    /\ disable_overloaded_equal = FALSE
    /\ last = NoCall
    /\ calls = 0

ExprInit == NoNodes /\ RunIdle /\ RemoteIdle

\* A call LazyExpr(new_op=(value1, op, value2)): a new object, kept only
\* when the constructor returns.  The flag is touched only on the
\* update_expr path of the constructor.
Construct(kind, value1, op, value2, arg) ==
    LET r     == LazyExprInit(value1, op, value2)
        fused == value2.t # "none" /\ op # FnArctan2
                 /\ value1.t # "scalar" /\ value2.t # "scalar"
                 /\ value1 # value2
                 /\ (value1.t = "expr" \/ value2.t = "expr")
    IN  /\ Len(nodes) < MaxNodes
        /\ calls < MaxCalls
        /\ calls' = calls + 1
        /\ Len(r.expression) <= MaxExprLen
        /\ nodes' = IF r.raised THEN nodes ELSE Append(nodes, Node(r))
        /\ disable_overloaded_equal' =
               IF fused THEN r.raised ELSE disable_overloaded_equal
        /\ last' = [kind |-> kind, self |-> 0, op |-> op, pre |-> NoNode,
                    arg |-> arg, raised |-> r.raised,
                    result |-> IF r.raised THEN 0 ELSE Len(nodes) + 1]
        /\ UNCHANGED <<evVars, svVars, runVars, remoteVars>>

\* A method of node n that ends in self.update_expr(new_op=(value1, op, value2)).
Update(kind, n, value1, op, value2, arg) ==
    LET r == update_expr(nodes[n], value1, op, value2)
    IN  /\ calls < MaxCalls
        /\ calls' = calls + 1
        /\ Len(r.expression) <= MaxExprLen
        /\ nodes' = [nodes EXCEPT ![n] = Node(r)]
        /\ disable_overloaded_equal' = r.raised
        /\ last' = [kind |-> kind, self |-> n, op |-> op, pre |-> nodes[n],
                    arg |-> arg, raised |-> r.raised,
                    result |-> IF r.raised THEN 0 ELSE n]
        /\ UNCHANGED <<evVars, svVars, runVars, remoteVars>>

NodeIds == 1..Len(nodes)

\* The values an operator of a LazyExpr can be given.
Values == {Arr(a) : a \in Arrays} \cup {Sca(v) : v \in Scalars}
              \cup {Lazy(nodes[m]) : m \in NodeIds}

\* array op array, array op scalar, scalar op array (the operators of the
\* array class build LazyExpr(new_op=(value1, op, value2))).
ArrayOp ==
    \E a \in Arrays, op \in BinOps :
        \/ \E b \in Arrays : Construct("array_op", Arr(a), op, Arr(b), Arr(b))
        \/ \E v \in Scalars : Construct("array_op", Arr(a), op, Sca(v), Sca(v))
        \/ \E v \in Scalars : Construct("array_op", Sca(v), op, Arr(a), Sca(v))

\* array op LazyExpr: the operator of the array is tried first and builds
\* LazyExpr(new_op=(array, op, expr)).
ArrayOpLazy ==
    \E a \in Arrays, op \in BinOps, m \in NodeIds :
        Construct("array_op_lazy", Arr(a), op, Lazy(nodes[m]), Lazy(nodes[m]))

\* A one-argument element function of an array or of a LazyExpr.
ElemFunc ==
    \/ \E a \in Arrays : Construct("func", Arr(a), FnSin, NoValue, Arr(a))
    \/ \E m \in NodeIds :
           Construct("func_lazy", Lazy(nodes[m]), FnSin, NoValue, Lazy(nodes[m]))

\* A two-argument element function of arrays and scalars.
ElemFunc2 ==
    \E a \in Arrays :
        \/ \E b \in Arrays \ {a} : Construct("func2", Arr(a), FnArctan2, Arr(b), Arr(b))
        \/ \E v \in Scalars : Construct("func2", Arr(a), FnArctan2, Sca(v), Sca(v))

\* LazyExpr.__add__ and the other binary operators: (self, op, value).
LazyOp ==
    \E n \in NodeIds, op \in BinOps, v \in Values :
        Update("op", n, Lazy(nodes[n]), op, v, v)

\* LazyExpr.__iadd__ and the other in-place operators: (self, op, value).
LazyIOp ==
    \E n \in NodeIds, op \in BinOps, v \in Values :
        Update("iop", n, Lazy(nodes[n]), op, v, v)

\* LazyExpr.__radd__ and the other reflected operators: (value, op, self).
LazyROp ==
    \E n \in NodeIds, op \in BinOps, v \in Values :
        /\ v.t # "expr"
        /\ Update("rop", n, v, op, Lazy(nodes[n]), v)

\* The slicing sugar array[expr]: (array, "[]", self).
SliceSugar ==
    \E n \in NodeIds, a \in Arrays :
        Update("slice", n, Arr(a), OpSlice, Lazy(nodes[n]), Arr(a))

\* LazyExpr.__invert__: (self, "not", None).
Invert ==
    \E n \in NodeIds : Update("invert", n, Lazy(nodes[n]), OpNot, NoValue, NoValue)

\* LazyExpr.__neg__: (0, "-", self).
Neg ==
    \E n \in NodeIds : Update("neg", n, Sca(0), OpSub, Lazy(nodes[n]), Sca(0))

ExprNext ==
    \/ ArrayOp
    \/ ArrayOpLazy
    \/ ElemFunc
    \/ ElemFunc2
    \/ LazyOp
    \/ LazyIOp
    \/ LazyROp
    \/ SliceSugar
    \/ Invert
    \/ Neg

vars == <<exprVars, evVars, svVars, runVars, remoteVars>>

(***************************************************************************)
(* What an expression denotes.  The kernel reads a placeholder as the      *)
(* identifier o<digits>; Resolve rewrites every placeholder into the       *)
(* identity of the operand the table binds it to ("?" when the table has   *)
(* no such name), so two nodes with equal Resolve evaluate alike.          *)
(***************************************************************************)
IdentChars == DigitChars \cup
    {"a", "b", "c", "d", "e", "f", "g", "h", "i", "j", "k", "l", "m", "n",
     "o", "p", "q", "r", "s", "t", "u", "v", "w", "x", "y", "z", "_"}

\* The number of digits that follow position i.
RECURSIVE DigitRun(_, _)
DigitRun(expr, i) ==
    IF i < Len(expr) /\ expr[i + 1] \in DigitChars THEN 1 + DigitRun(expr, i + 1) ELSE 0

IsPlaceholderAt(expr, i) ==
    /\ expr[i] = "o"
    /\ i = 1 \/ expr[i - 1] \notin IdentChars
    /\ DigitRun(expr, i) > 0

PlaceholderAt(expr, i) == ParseInt(SubSeq(expr, i + 1, i + DigitRun(expr, i)))

\* The placeholder numbers of an expression, in order of occurrence.
RECURSIVE PlaceholdersFrom(_, _)
PlaceholdersFrom(expr, i) ==
    IF i > Len(expr) THEN <<>>
    ELSE IF IsPlaceholderAt(expr, i)
    THEN <<PlaceholderAt(expr, i)>> \o PlaceholdersFrom(expr, i + DigitRun(expr, i) + 1)
    ELSE PlaceholdersFrom(expr, i + 1)

Placeholders(expr) == PlaceholdersFrom(expr, 1)

RECURSIVE ResolveFrom(_, _, _)
ResolveFrom(expr, operands, i) ==
    IF i > Len(expr) THEN <<>>
    ELSE IF IsPlaceholderAt(expr, i)
    THEN LET n == PlaceholderAt(expr, i)
         IN  <<IF n < Len(operands) THEN operands[n + 1] ELSE "?">>
                 \o ResolveFrom(expr, operands, i + DigitRun(expr, i) + 1)
    ELSE <<expr[i]>> \o ResolveFrom(expr, operands, i + 1)

Resolve(nd) == ResolveFrom(nd.expression, nd.operands, 1)

\* Every placeholder of the expression is a name of the operand table.
WellFormed(nd) ==
    \A k \in 1..Len(Placeholders(nd.expression)) :
        Placeholders(nd.expression)[k] < Len(nd.operands)

\* What a value denotes as a sub-expression.
Denotes(v) ==
    IF v.t = "arr" THEN <<v.id>>
    ELSE IF v.t = "scalar" THEN Render(v)
    ELSE IF v.t = "expr" THEN Resolve(v)
    ELSE <<>>

IsFusion == last.kind \in {"op", "iop"} /\ last.arg.t = "expr"

\* C1: after a fusion L op R of two well-formed nodes that returned, the
\* fused node denotes (L op R): every placeholder that came from R denotes
\* in the merged table the operand it denoted in R's table, and every
\* placeholder of L still denotes its operand of L.
C1_FusionPreservesSemantics ==
    (IsFusion /\ ~last.raised /\ WellFormed(last.pre) /\ WellFormed(last.arg))
        => Resolve(nodes[last.self])
               = Paren(Resolve(last.pre), last.op, Resolve(last.arg))

\* The placeholders of the fused expression that were rewritten from R's.
RebasedTokens ==
    LET all == Placeholders(nodes[last.self].expression)
        nl  == Len(Placeholders(last.pre.expression))
    IN  IF Len(all) <= nl THEN <<>> ELSE SubSeq(all, nl + 1, Len(all))

\* C2: a fusion L op R of two well-formed nodes completes; all placeholders
\* of the result are names of the merged table, the names of L keep their
\* operands, and every placeholder of R is replaced by the name L has for
\* the identical operand or by a fresh id, the fresh ids being
\* len(L.operands), len(L.operands) + 1, ... without a gap.
C2_PlaceholderRebasing ==
    (IsFusion /\ WellFormed(last.pre) /\ WellFormed(last.arg))
        => /\ ~last.raised
           /\ WellFormed(nodes[last.self])
           /\ LET L     == last.pre
                  R     == last.arg
                  nL    == Len(L.operands)
                  old   == Placeholders(R.expression)
                  new   == RebasedTokens
                  fresh == {new[k] : k \in {m \in 1..Len(new) : new[m] >= nL}}
              IN  /\ \A i \in 1..nL : nodes[last.self].operands[i] = L.operands[i]
                  /\ Len(new) = Len(old)
                  /\ \A k \in 1..Len(new) :
                         new[k] < nL => L.operands[new[k] + 1] = R.operands[old[k] + 1]
                  /\ \A k \in 1..Len(new) :
                         new[k] >= nL => IndexOf(L.operands, R.operands[old[k] + 1]) < 0
                  /\ fresh = nL..(nL + Cardinality(fresh) - 1)

\* What the node returned by the last call has to denote, given what its
\* sub-expressions denoted when the call was made.
Expected ==
    IF last.kind = "array_op"
    THEN IF last.arg.t = "scalar" /\ Placeholders(nodes[last.result].expression) = <<0>>
              /\ nodes[last.result].expression[2] # "o"
         THEN Paren(Denotes(last.arg), last.op, <<nodes[last.result].operands[1]>>)
         ELSE Paren(<<nodes[last.result].operands[1]>>, last.op, Denotes(last.arg))
    ELSE IF last.kind = "array_op_lazy"
    THEN Paren(<<nodes[last.result].operands[1]>>, last.op, Denotes(last.arg))
    ELSE IF last.kind \in {"op", "iop"}
    THEN Paren(Resolve(last.pre), last.op, Denotes(last.arg))
    ELSE IF last.kind \in {"rop", "neg"}
    THEN Paren(Denotes(last.arg), last.op, Resolve(last.pre))
    ELSE IF last.kind = "slice"
    THEN <<"(">> \o Denotes(last.arg) \o <<"[">> \o Resolve(last.pre) \o <<"]", ")">>
    ELSE IF last.kind = "invert"
    THEN <<"(">> \o OpNot \o Resolve(last.pre) \o <<")">>
    ELSE Resolve(nodes[last.result])

\* C3: in every node the placeholders of the expression are names of the
\* operand table, and the node a call returns binds each placeholder to
\* the operand it was bound to in the sub-expression it came from.
C3_PlaceholdersInTable ==
    /\ \A n \in NodeIds : WellFormed(nodes[n])
    /\ (last.result # 0 /\ WellFormed(last.pre)
            /\ (last.arg.t = "expr" => WellFormed(last.arg)))
           => Resolve(nodes[last.result]) = Expected

\* C4: a binary, reflected or unary operator that is not an in-place form
\* leaves the node it is applied to as it was.
C4_OperatorsDoNotMutate ==
    (last.kind \in {"op", "rop", "invert", "neg"} /\ ~last.raised)
        => nodes[last.self] = last.pre

(***************************************************************************)
(* Arrays of the evaluator.  A shape is a sequence of sizes, an index a    *)
(* sequence of 0-based positions, a buffer [shape, data] with data a       *)
(* function of the indexes of the shape.  A slice is [start, stop] with    *)
(* step 1; None is written NoneV.                                          *)
(***************************************************************************)
NoneV == -1

Sl(a, b) == [start |-> a, stop |-> b]

FullSlice == Sl(NoneV, NoneV)

Min2(a, b) == IF a < b THEN a ELSE b

Max2(a, b) == IF a > b THEN a ELSE b

RECURSIVE Prod(_)
Prod(s) == IF Len(s) = 0 THEN 1 ELSE s[1] * Prod(Tail(s))

RECURSIVE AllIdx(_)
AllIdx(shape) ==
    IF Len(shape) = 0 THEN {<<>>}
    ELSE {<<i>> \o t : i \in 0..(shape[1] - 1), t \in AllIdx(Tail(shape))}

\* A NumPy buffer, and a chunked container with its chunk and block shapes.
Buf(shape, data) ==
    [t |-> "array", kind |-> "np", shape |-> shape, chunks |-> <<>>,
     blocks |-> <<>>, data |-> data]

NdBuf(shape, chunks, blocks, data) ==
    [t |-> "array", kind |-> "nd", shape |-> shape, chunks |-> chunks,
     blocks |-> blocks, data |-> data]

\* np.empty / blosc2.empty: the elements hold whatever the memory held;
\* Junk stands for a value that no computation of the model produces.
Junk == -99

Empty(shape) == Buf(shape, [idx \in AllIdx(shape) |-> Junk])

Full(shape, v) == Buf(shape, [idx \in AllIdx(shape) |-> v])

NoneOut == [t |-> "none"]

RaisedOut == [t |-> "raised"]

\* value[slice_] of NumPy and of the chunked array: a slice tuple shorter
\* than the number of dimensions is padded with full slices, a longer one
\* is an IndexError, and bounds beyond the shape are clamped.
SliceLo(sl, size) == IF sl.start = NoneV THEN 0 ELSE Min2(sl.start, size)

SliceHi(sl, size) == IF sl.stop = NoneV THEN size ELSE Min2(sl.stop, size)

PadSlices(sls, n) == [i \in 1..n |-> IF i <= Len(sls) THEN sls[i] ELSE FullSlice]

GetSlice(arr, sls) ==
    IF Len(sls) > Len(arr.shape) THEN RaisedOut
    ELSE LET n   == Len(arr.shape)
             p   == PadSlices(sls, n)
             lo  == [i \in 1..n |-> SliceLo(p[i], arr.shape[i])]
             hi  == [i \in 1..n |-> Max2(lo[i], SliceHi(p[i], arr.shape[i]))]
             shp == [i \in 1..n |-> hi[i] - lo[i]]
         IN  Buf(shp, [idx \in AllIdx(shp) |->
                           arr.data[[i \in 1..n |-> idx[i] + lo[i]]]])

\* Right-aligned broadcasting of NumPy.
PadShape(shape, n) ==
    [i \in 1..n |-> IF i <= n - Len(shape) THEN 1 ELSE shape[i - (n - Len(shape))]]

BroadcastsTo(shape, target) ==
    /\ Len(shape) <= Len(target)
    /\ \A i \in 1..Len(target) :
           PadShape(shape, Len(target))[i] \in {1, target[i]}

\* The element of buf that index idx of a shape it broadcasts to reads.
BroadcastRead(buf, idx) ==
    LET n == Len(idx)
        d == n - Len(buf.shape)
    IN  buf.data[[i \in 1..Len(buf.shape) |->
                      IF buf.shape[i] = 1 THEN 0 ELSE idx[i + d]]]

\* out[slice_] = value: value is broadcast to the shape of the slice;
\* NumPy raises when it cannot be.
SetSlice(out, sls, value) ==
    IF Len(sls) > Len(out.shape) THEN RaisedOut
    ELSE LET n   == Len(out.shape)
             p   == PadSlices(sls, n)
             lo  == [i \in 1..n |-> SliceLo(p[i], out.shape[i])]
             hi  == [i \in 1..n |-> Max2(lo[i], SliceHi(p[i], out.shape[i]))]
             shp == [i \in 1..n |-> hi[i] - lo[i]]
             lead == Len(value.shape) - n
         IN  IF lead > 0 /\ \E i \in 1..lead : value.shape[i] # 1 THEN RaisedOut
             ELSE LET v == IF lead > 0
                           THEN Buf(SubSeq(value.shape, lead + 1, Len(value.shape)),
                                    [idx \in AllIdx(SubSeq(value.shape, lead + 1,
                                                           Len(value.shape))) |->
                                        value.data[[i \in 1..lead |-> 0] \o idx]])
                           ELSE value
                  IN  IF ~BroadcastsTo(v.shape, shp) THEN RaisedOut
                      ELSE [out EXCEPT !.data =
                               [idx \in AllIdx(out.shape) |->
                                   IF \A i \in 1..n : idx[i] >= lo[i] /\ idx[i] < hi[i]
                                   THEN BroadcastRead(v, [i \in 1..n |-> idx[i] - lo[i]])
                                   ELSE out.data[idx]]]

(***************************************************************************)
(* Operands of an evaluation: a chunked array ("nd"), a NumPy array        *)
(* ("np") or a scalar.                                                     *)
(***************************************************************************)
NdOperand(shape, chunks, blocks, data) ==
    [kind |-> "nd", shape |-> shape, chunks |-> chunks, blocks |-> blocks,
     data |-> data, value |-> 0]

NpOperand(shape, data) ==
    [kind |-> "np", shape |-> shape, chunks |-> <<>>, blocks |-> <<>>,
     data |-> data, value |-> 0]

ScalarOperand(v) ==
    [kind |-> "scalar", shape |-> <<>>, chunks |-> <<>>, blocks |-> <<>>,
     data |-> <<>>, value |-> v]

AsBuf(o) == Buf(o.shape, o.data)

\* The positions of a sequence that satisfy a test, in order.
RECURSIVE Positions(_, _, _)
Positions(ops, kinds, i) ==
    IF i > Len(ops) THEN <<>>
    ELSE IF ops[i].kind \in kinds THEN <<i>> \o Positions(ops, kinds, i + 1)
    ELSE Positions(ops, kinds, i + 1)

ArrayPositions(ops) == Positions(ops, {"nd", "np"}, 1)

NdPositions(ops) == Positions(ops, {"nd"}, 1)

MaxLen(shapes) ==
    CHOOSE n \in {Len(shapes[i]) : i \in 1..Len(shapes)} :
        \A i \in 1..Len(shapes) : Len(shapes[i]) <= n

MaxOf(S) == CHOOSE m \in S : \A x \in S : x <= m

(***************************************************************************)
(* check_broadcast_compatible(arrays): TRUE when the call returns, FALSE   *)
(* when it raises ValueError.                                              *)
(***************************************************************************)
check_broadcast_compatible(shapes) ==
    LET max_len == MaxLen(shapes)
        shapes_ == [k \in 1..Len(shapes) |-> PadShape(shapes[k], max_len)]
    IN  \A d \in 1..max_len :
            LET dims    == {shapes_[k][d] : k \in 1..Len(shapes)}
                max_dim == MaxOf(dims)
            IN  \A dim \in dims : dim = max_dim \/ dim = 1

(***************************************************************************)
(* compute_broadcast_shape(arrays)                                         *)
(***************************************************************************)
compute_broadcast_shape(shapes) ==
    LET max_len == MaxLen(shapes)
        shapes_ == [k \in 1..Len(shapes) |-> PadShape(shapes[k], max_len)]
    IN  [d \in 1..max_len |-> MaxOf({shapes_[k][d] : k \in 1..Len(shapes)})]

ShapesOf(ops, pos) == [k \in 1..Len(pos) |-> ops[pos[k]].shape]

(***************************************************************************)
(* validate_inputs(inputs, getitem, out) -> (shape, dtype, fast_path).     *)
(* out is NoneOut, a NumPy buffer or a chunked operand.  The dtype is not  *)
(* modelled: every array of the model holds integers.                      *)
(***************************************************************************)
Invalid == [raised |-> TRUE, shape |-> <<>>, fast_path |-> FALSE]

Valid(shape, fast_path) == [raised |-> FALSE, shape |-> shape, fast_path |-> fast_path]

IsNdOut(out) == out.t = "array" /\ out.kind = "nd"

\* validate_inputs without the test of the trailing dimensions.
validate_inputs_any_blocks(inputs, out) ==
    LET arrs == ArrayPositions(inputs)
        nds  == NdPositions(inputs)
    IN  IF Len(inputs) = 0 THEN Invalid
        ELSE IF Len(arrs) > 1 /\ ~check_broadcast_compatible(ShapesOf(inputs, arrs))
        THEN Invalid
        ELSE IF Len(nds) = 0
        THEN IF Len(arrs) = 0 THEN Invalid    \* inputs[0] of an empty list
             ELSE Valid(inputs[arrs[1]].shape, FALSE)
        ELSE LET first_input == inputs[nds[1]]
             IN  IF IsNdOut(out) /\ first_input.shape # out.shape THEN Invalid
                 ELSE LET out_chunks == ~IsNdOut(out) \/ first_input.chunks = out.chunks
                          out_blocks == ~IsNdOut(out) \/ first_input.blocks = out.blocks
                          equal_chunks ==
                              /\ out_chunks
                              /\ \A k \in 1..Len(nds) :
                                     first_input.chunks = inputs[nds[k]].chunks
                          equal_blocks ==
                              /\ out_blocks
                              /\ \A k \in 1..Len(nds) :
                                     first_input.blocks = inputs[nds[k]].blocks
                      IN  Valid(first_input.shape, equal_chunks /\ equal_blocks)

validate_inputs(inputs, out) ==
    LET arrs == ArrayPositions(inputs)
        nds  == NdPositions(inputs)
    IN  IF Len(inputs) = 0 THEN Invalid
        ELSE IF Len(arrs) > 1 /\ ~check_broadcast_compatible(ShapesOf(inputs, arrs))
        THEN Invalid
        ELSE IF Len(nds) = 0
        THEN IF Len(arrs) = 0 THEN Invalid    \* inputs[0] of an empty list
             ELSE Valid(inputs[arrs[1]].shape, FALSE)
        ELSE LET first_input == inputs[nds[1]]
             IN  IF IsNdOut(out) /\ first_input.shape # out.shape THEN Invalid
                 ELSE LET out_chunks == ~IsNdOut(out) \/ first_input.chunks = out.chunks
                          out_blocks == ~IsNdOut(out) \/ first_input.blocks = out.blocks
                          equal_chunks ==
                              /\ out_chunks
                              /\ \A k \in 1..Len(nds) :
                                     first_input.chunks = inputs[nds[k]].chunks
                          equal_blocks ==
                              /\ out_blocks
                              /\ \A k \in 1..Len(nds) :
                                     /\ first_input.blocks = inputs[nds[k]].blocks
                                     /\ Tail(inputs[nds[k]].blocks)
                                            = Tail(inputs[nds[k]].chunks)
                      IN  Valid(first_input.shape, equal_chunks /\ equal_blocks)

(***************************************************************************)
(* The chunk grid of a reference array.                                    *)
(***************************************************************************)
CeilDiv(a, b) == (a + b - 1) \div b

ExtShape(shape, chunks) == [i \in 1..Len(shape) |-> CeilDiv(shape[i], chunks[i]) * chunks[i]]

ChunksIdx(shape, chunks) == [i \in 1..Len(shape) |-> CeilDiv(shape[i], chunks[i])]

NChunks(shape, chunks) == Prod(ChunksIdx(shape, chunks))

\* np.unravel_index(nchunk, chunks_idx), C order.
UnravelIndex(n, dims) ==
    [i \in 1..Len(dims) |->
        (n \div Prod(SubSeq(dims, i + 1, Len(dims)))) % dims[i]]

\* The slice of chunk nchunk without the clamp to the shape.
ChunkSlice_unclamped(shape, chunks, nchunk) ==
    LET coords == UnravelIndex(nchunk, ChunksIdx(shape, chunks))
    IN  [i \in 1..Len(shape) |->
            Sl(coords[i] * chunks[i], (coords[i] + 1) * chunks[i])]

\* slice_ of chunk nchunk: slice(c * s, min((c + 1) * s, shape[i])).
ChunkSlice(shape, chunks, nchunk) ==
    LET coords == UnravelIndex(nchunk, ChunksIdx(shape, chunks))
    IN  [i \in 1..Len(shape) |->
            Sl(coords[i] * chunks[i], Min2((coords[i] + 1) * chunks[i], shape[i]))]

SliceShape(slice_) == [i \in 1..Len(slice_) |-> slice_[i].stop - slice_[i].start]

(***************************************************************************)
(* check_smaller_shape(value, shape, slice_shape)                          *)
(***************************************************************************)
check_smaller_shape(value_shape, shape, slice_shape) ==
    LET is_smaller_shape ==
            \E i \in 1..Len(slice_shape) :
                slice_shape[i] > (IF i > Len(value_shape) THEN 1 ELSE value_shape[i])
    IN  Len(value_shape) < Len(shape) \/ is_smaller_shape

(***************************************************************************)
(* compute_smaller_slice(larger_shape, smaller_shape, larger_slice).       *)
(* The result is a sequence of slices; the code's 0-based i runs over      *)
(* range(diff_dims, len(larger_shape)).                                    *)
(***************************************************************************)
\* larger_slice[i] of Python for a 0-based i that may be negative: the
\* 1-based position read, 0 for an IndexError.
PyIndex(seq, i) ==
    IF i >= 0 THEN (IF i < Len(seq) THEN i + 1 ELSE 0)
    ELSE (IF Len(seq) + i >= 0 THEN Len(seq) + i + 1 ELSE 0)

SmallerSliceRaises(larger_shape, smaller_shape, larger_slice) ==
    LET diff_dims == Len(larger_shape) - Len(smaller_shape)
    IN  \E k \in 1..Len(smaller_shape) :
            /\ smaller_shape[k] # 1
            /\ PyIndex(larger_slice, k - 1 + diff_dims) = 0

compute_smaller_slice(larger_shape, smaller_shape, larger_slice) ==
    LET diff_dims == Len(larger_shape) - Len(smaller_shape)
    IN  [k \in 1..Len(smaller_shape) |->
            IF smaller_shape[k] # 1
            THEN larger_slice[PyIndex(larger_slice, k - 1 + diff_dims)]
            ELSE FullSlice]

(***************************************************************************)
(* The scalar kernel.  Every expression of the evaluator model is the sum  *)
(* of its operands: the kernel broadcasts the chunk buffers together and   *)
(* adds them element by element; it raises on shapes that do not           *)
(* broadcast.  A scalar is a buffer of shape ().                           *)
(***************************************************************************)
ScalarBuf(v) == Buf(<<>>, [idx \in {<<>>} |-> v])

RECURSIVE SumReads(_, _, _)
SumReads(bufs, idx, k) ==
    IF k > Len(bufs) THEN 0
    ELSE BroadcastRead(bufs[k],
                       SubSeq(idx, 1, Len(idx))) + SumReads(bufs, idx, k + 1)

KernelCompatible(bufs) ==
    LET shapes  == [k \in 1..Len(bufs) |-> bufs[k].shape]
        max_len == MaxLen(shapes)
        shapes_ == [k \in 1..Len(bufs) |-> PadShape(shapes[k], max_len)]
    IN  \A d \in 1..max_len :
            Cardinality({shapes_[k][d] : k \in 1..Len(bufs)} \ {1}) <= 1

KernelShape(bufs) ==
    LET shapes  == [k \in 1..Len(bufs) |-> bufs[k].shape]
        max_len == MaxLen(shapes)
        shapes_ == [k \in 1..Len(bufs) |-> PadShape(shapes[k], max_len)]
    IN  [d \in 1..max_len |->
            LET dims == {shapes_[k][d] : k \in 1..Len(bufs)} \ {1}
            IN  IF dims = {} THEN 1 ELSE CHOOSE x \in dims : TRUE]

Kernel(bufs) ==
    IF \E k \in 1..Len(bufs) : bufs[k].t # "array" THEN RaisedOut
    ELSE IF ~KernelCompatible(bufs) THEN RaisedOut
    ELSE LET shp == KernelShape(bufs)
         IN  Buf(shp, [idx \in AllIdx(shp) |-> SumReads(bufs, idx, 1)])

(***************************************************************************)
(* Items.  An item is None, a bare index (one int or slice) or a tuple of  *)
(* them; an entry is an int k or a slice start:stop of step 1.             *)
(***************************************************************************)
IntEntry(k) == [t |-> "int", start |-> k, stop |-> k]

SliceEntry(a, b) == [t |-> "slice", start |-> a, stop |-> b]

\* slice(a, b, step) with a step that is not None.
StepEntry(a, b, step) == [t |-> "slice", start |-> a, stop |-> b, step |-> step]

\* The step of an entry of an item, 1 for None and for an integer.
StepOf(e) == IF "step" \in DOMAIN e /\ e.step # NoneV THEN e.step ELSE 1

NoItem == [kind |-> "none", entries |-> <<>>]

BareItem(e) == [kind |-> "bare", entries |-> <<e>>]

TupleItem(es) == [kind |-> "tuple", entries |-> es]

\* item == slice(None, None, None)
IsWholeSlice(item) ==
    item.kind = "bare" /\ item.entries[1] = SliceEntry(NoneV, NoneV)

\* ndindex.ndindex(_slice).expand(shape).raw followed by the rewrite of
\* integers k into slice(k, k + 1): one explicit slice per dimension,
\* empty slices in the canonical form 0:0; raised for too many indices
\* or an integer outside the dimension.
ExpandEntry(e, size) ==
    IF e.t = "int" THEN Sl(e.start, e.start + 1)
    ELSE LET lo == IF e.start = NoneV THEN 0 ELSE Min2(e.start, size)
             hi == IF e.stop = NoneV THEN size ELSE Min2(e.stop, size)
         IN  IF lo >= hi THEN Sl(0, 0) ELSE Sl(lo, hi)

ExpandItem(item, shape) ==
    LET es == item.entries
    IN  IF Len(es) > Len(shape)
           \/ \E i \in 1..Len(es) : es[i].t = "int" /\ es[i].start >= shape[i]
        THEN [raised |-> TRUE, slices |-> <<>>]
        ELSE [raised |-> FALSE,
              slices |-> [i \in 1..Len(shape) |->
                             IF i <= Len(es) THEN ExpandEntry(es[i], shape[i])
                             ELSE ExpandEntry(SliceEntry(NoneV, NoneV), shape[i])]]

(***************************************************************************)
(* do_slices_intersect(slice1, slice2)                                     *)
(***************************************************************************)
do_slices_intersect(slice1, slice2) ==
    LET n  == Max2(Len(slice1), Len(slice2))
        p1 == PadSlices(slice1, n)
        p2 == PadSlices(slice2, n)
        miss(s1, s2) ==
            \/ s1.start # NoneV /\ s2.stop # NoneV /\ s1.start >= s2.stop
            \/ s1.stop # NoneV /\ s2.start # NoneV /\ s1.stop <= s2.start
    IN  ~\E i \in 1..n : miss(p1[i], p2[i])

(***************************************************************************)
(* The operand loop of slices_eval and reduce_slices: the buffer fetched   *)
(* for one operand and one chunk slice.                                    *)
(***************************************************************************)
FetchSlice(value, shape, slice_) ==
    IF value.kind = "scalar" THEN ScalarBuf(value.value)
    ELSE IF check_smaller_shape(value.shape, shape, SliceShape(slice_))
    THEN IF SmallerSliceRaises(shape, value.shape, slice_) THEN RaisedOut
         ELSE GetSlice(AsBuf(value), compute_smaller_slice(shape, value.shape, slice_))
    ELSE GetSlice(AsBuf(value), slice_)

(***************************************************************************)
(* slices_eval(expression, operands, _slice, _getitem, _output).           *)
(* udf tells whether expression is a callable; auto_chunks is the chunk    *)
(* shape the container library picks for the array that only provides the  *)
(* chunk grid.  The result is the returned object: an array, None          *)
(* (NoneOut) or RaisedOut for an exception.                                *)
(***************************************************************************)
SlicesChunk(c, slice_, out) ==
    LET bufs   == [k \in 1..Len(c.operands) |-> FetchSlice(c.operands[k], c.shape, slice_)]
        result == Kernel(bufs)
    IN  IF result.t = "raised" THEN RaisedOut
        ELSE IF c.udf
        THEN IF out.t = "none" THEN RaisedOut ELSE SetSlice(out, slice_, result)
        ELSE SetSlice(IF out.t # "none" THEN out
                      ELSE IF c.getitem THEN Empty(c.shape)
                      ELSE NdBuf(c.shape, c.chunks, <<>>,
                                 [idx \in AllIdx(c.shape) |-> Junk]),
                      slice_, result)

RECURSIVE SlicesLoop(_, _, _, _)
SlicesLoop(c, nchunk, sl, out) ==
    IF nchunk >= c.nchunks THEN out
    ELSE LET slice_ == ChunkSlice(c.shape, c.chunks, nchunk)
         IN  IF c.filter /\ sl.raised THEN RaisedOut
             ELSE IF c.filter /\ ~do_slices_intersect(sl.slices, slice_)
             THEN SlicesLoop(c, nchunk + 1, sl, out)
             ELSE LET o == SlicesChunk(c, slice_, out)
                  IN  IF o.t = "raised" THEN RaisedOut
                      ELSE SlicesLoop(c, nchunk + 1, sl, o)

slices_eval(operands, _slice, getitem, out, udf, auto_chunks) ==
    LET arrs == ArrayPositions(operands)
        nds  == NdPositions(operands)
    IN  IF out.t = "none" /\ Len(arrs) = 0 THEN RaisedOut
        ELSE
        LET shape  == IF out.t = "none"
                      THEN compute_broadcast_shape(ShapesOf(operands, arrs))
                      ELSE IF Len(nds) = 0 THEN out.shape
                      ELSE operands[nds[1]].shape
            chunks == IF out.t = "none" \/ Len(nds) = 0
                      THEN [i \in 1..Len(shape) |-> Min2(auto_chunks[i], shape[i])]
                      ELSE operands[nds[1]].chunks
            filter == _slice.kind # "none" /\ _slice # TupleItem(<<>>)
            c == [operands |-> operands, shape |-> shape, chunks |-> chunks,
                  nchunks |-> NChunks(shape, chunks), getitem |-> getitem,
                  udf |-> udf, filter |-> filter]
        IN  SlicesLoop(c, 0, ExpandItem(_slice, shape), out)

(***************************************************************************)
(* The reference array of the fast path and of the reductions:             *)
(* max(NDArray operands, key=len(shape)), the first one of the largest     *)
(* number of dimensions; 0 when there is no chunked operand (ValueError).  *)
(***************************************************************************)
RefPosition(operands) ==
    LET nds == NdPositions(operands)
    IN  IF Len(nds) = 0 THEN 0
        ELSE nds[CHOOSE k \in 1..Len(nds) :
                    /\ \A j \in 1..Len(nds) :
                           Len(operands[nds[j]].shape) <= Len(operands[nds[k]].shape)
                    /\ \A j \in 1..(k - 1) :
                           Len(operands[nds[j]].shape) < Len(operands[nds[k]].shape)]

HasPadding(shape, chunks) == ExtShape(shape, chunks) # shape

\* np.ravel_multi_index(idx, dims), C order.
RECURSIVE RavelIndex(_, _)
RavelIndex(idx, dims) ==
    IF Len(idx) = 0 THEN 0
    ELSE idx[1] * Prod(Tail(dims)) + RavelIndex(Tail(idx), Tail(dims))

(***************************************************************************)
(* value.schunk.decompress_chunk(nchunk) followed by                       *)
(* np.frombuffer(buff[:bsize]).reshape(chunks_): chunk nchunk of the       *)
(* operand's own grid, read in C order (the fast path requires             *)
(* blocks[1:] == chunks[1:]); elements of the chunk beyond the operand's   *)
(* shape are padding.  It raises for a chunk the operand does not have     *)
(* and for a chunk with fewer items than chunks_.                          *)
(***************************************************************************)
DecompressChunk(value, nchunk, chunks_) ==
    IF nchunk >= NChunks(value.shape, value.chunks) THEN RaisedOut
    ELSE IF Prod(value.chunks) < Prod(chunks_) THEN RaisedOut
    ELSE LET coords == UnravelIndex(nchunk, ChunksIdx(value.shape, value.chunks))
             n      == Len(value.shape)
             at(idx) ==
                 LET local == UnravelIndex(RavelIndex(idx, chunks_), value.chunks)
                     glob  == [i \in 1..n |-> coords[i] * value.chunks[i] + local[i]]
                 IN  IF \A i \in 1..n : glob[i] < value.shape[i]
                     THEN value.data[glob] ELSE Junk
         IN  Buf(chunks_, [idx \in AllIdx(chunks_) |-> at(idx)])

(***************************************************************************)
(* fill_chunk_operands: the buffer of one operand for one chunk.           *)
(***************************************************************************)
FillChunkOperand(value, slice_, chunks_, full_chunk, nchunk) ==
    IF value.kind = "scalar" THEN ScalarBuf(value.value)
    ELSE IF ~full_chunk \/ value.kind = "np" THEN GetSlice(AsBuf(value), slice_)
    ELSE DecompressChunk(value, nchunk, chunks_)

fill_chunk_operands(operands, slice_, chunks_, full_chunk, nchunk) ==
    [k \in 1..Len(operands) |->
        FillChunkOperand(operands[k], slice_, chunks_, full_chunk, nchunk)]

\* out.schunk.update_data(nchunk, result): the chunk is replaced by the
\* result, which has to be a whole chunk.
UpdateData(out, slice_, result) ==
    IF result.shape # out.chunks THEN RaisedOut
    ELSE SetSlice(out, slice_, result)

(***************************************************************************)
(* chunks_getitem(expression, operands, out)                               *)
(***************************************************************************)
GetitemChunk(c, nchunk, out) ==
    LET slice_     == ChunkSlice(c.shape, c.chunks, nchunk)
        chunks_    == SliceShape(slice_)
        full_chunk == chunks_ = c.chunks /\ ~c.has_padding
        result     == Kernel(fill_chunk_operands(c.operands, slice_, chunks_,
                                                 full_chunk, nchunk))
    IN  IF result.t = "raised" THEN RaisedOut
        ELSE IF c.udf
        THEN IF out.t = "none" THEN RaisedOut ELSE SetSlice(out, slice_, result)
        ELSE SetSlice(IF out.t = "none" THEN Empty(c.shape) ELSE out, slice_, result)

RECURSIVE GetitemLoop(_, _, _)
GetitemLoop(c, nchunk, out) ==
    IF nchunk >= c.nchunks THEN out
    ELSE LET o == GetitemChunk(c, nchunk, out)
         IN  IF o.t = "raised" THEN RaisedOut ELSE GetitemLoop(c, nchunk + 1, o)

chunks_getitem(operands, out, udf) ==
    IF RefPosition(operands) = 0 THEN RaisedOut
    ELSE LET basearr == operands[RefPosition(operands)]
             c == [operands |-> operands, shape |-> basearr.shape,
                   chunks |-> basearr.chunks, udf |-> udf,
                   has_padding |-> HasPadding(basearr.shape, basearr.chunks),
                   nchunks |-> NChunks(basearr.shape, basearr.chunks)]
         IN  GetitemLoop(c, 0, out)

(***************************************************************************)
(* chunks_eval(expression, operands, _output)                              *)
(***************************************************************************)
EvalChunk(c, nchunk, out) ==
    LET slice_     == ChunkSlice(c.shape, c.chunks, nchunk)
        chunks_    == SliceShape(slice_)
        full_chunk == chunks_ = c.chunks /\ ~c.has_padding
        result     == Kernel(fill_chunk_operands(c.operands, slice_, chunks_,
                                                 full_chunk, nchunk))
        out1       == IF out.t = "none"
                      THEN NdBuf(c.shape, c.chunks, c.blocks,
                                 [idx \in AllIdx(c.shape) |-> Junk])
                      ELSE out
    IN  IF c.udf /\ out.t = "none" THEN RaisedOut
        ELSE IF result.t = "raised" THEN RaisedOut
        ELSE IF c.has_padding THEN SetSlice(out1, slice_, result)
        ELSE UpdateData(out1, slice_, result)

RECURSIVE EvalLoop(_, _, _)
EvalLoop(c, nchunk, out) ==
    IF nchunk >= c.nchunks THEN out
    ELSE LET o == EvalChunk(c, nchunk, out)
         IN  IF o.t = "raised" THEN RaisedOut ELSE EvalLoop(c, nchunk + 1, o)

chunks_eval(operands, out, udf) ==
    IF out.t = "none" /\ RefPosition(operands) = 0 THEN RaisedOut
    ELSE IF out.t # "none" /\ out.kind # "nd" THEN RaisedOut
    ELSE LET basearr == IF out.t # "none" THEN out
                        ELSE operands[RefPosition(operands)]
             c == [operands |-> operands, shape |-> basearr.shape,
                   chunks |-> basearr.chunks, blocks |-> basearr.blocks,
                   udf |-> udf,
                   has_padding |-> HasPadding(basearr.shape, basearr.chunks),
                   nchunks |-> NChunks(basearr.shape, basearr.chunks)]
         IN  EvalLoop(c, 0, out)

(***************************************************************************)
(* Reductions.  Arrays hold 8-bit integers; a boolean is 0 or 1.           *)
(***************************************************************************)
ReduceOps == {"SUM", "PROD", "MIN", "MAX", "ANY", "ALL"}

\* np.iinfo(dtype).max and np.iinfo(dtype).min
IntMax == 127

IntMin == -128

\* The value the output of a reduction is created with.
Identity(op) ==
    CASE op = "SUM"  -> 0
      [] op = "PROD" -> 1
      [] op = "MIN"  -> IntMax
      [] op = "MAX"  -> IntMin
      [] op = "ANY"  -> 0
      [] op = "ALL"  -> 1

\* reduce_op.value(x, y), and += / *= on booleans for ANY / ALL.
Combine(op, x, y) ==
    CASE op = "SUM"  -> x + y
      [] op = "PROD" -> x * y
      [] op = "MIN"  -> Min2(x, y)
      [] op = "MAX"  -> Max2(x, y)
      [] op = "ANY"  -> IF x # 0 \/ y # 0 THEN 1 ELSE 0
      [] op = "ALL"  -> IF x # 0 /\ y # 0 THEN 1 ELSE 0

\* The axis argument: None, an integer or a tuple of integers.
AxisNone == [t |-> "none", axes |-> {}]

AxisInt(k) == [t |-> "int", axes |-> {k}]

AxisTuple(S) == [t |-> "tuple", axes |-> S]

\* An integer axis taken for None.
NormAxis_int_as_none(axis, shape) ==
    IF axis.t \in {"none", "int"} THEN 0..(Len(shape) - 1) ELSE axis.axes

\* axis = tuple(range(len(shape))) for None, (axis,) for an integer.
NormAxis(axis, shape) ==
    IF axis.t = "none" THEN 0..(Len(shape) - 1) ELSE axis.axes

\* The dimensions (1-based) that a reduction over axes keeps.
KeptDims(n, axes) ==
    LET Kept(i) == (i - 1) \notin axes
    IN  SelectSeq([i \in 1..n |-> i], Kept)

ReducedShape(shape, axes, keepdims) ==
    IF keepdims
    THEN [i \in 1..Len(shape) |-> IF (i - 1) \in axes THEN 1 ELSE shape[i]]
    ELSE [k \in 1..Len(KeptDims(Len(shape), axes)) |->
             shape[KeptDims(Len(shape), axes)[k]]]

ReducedSlice(slice_, axes, keepdims) ==
    IF keepdims
    THEN [i \in 1..Len(slice_) |-> IF (i - 1) \in axes THEN FullSlice ELSE slice_[i]]
    ELSE [k \in 1..Len(KeptDims(Len(slice_), axes)) |->
             slice_[KeptDims(Len(slice_), axes)[k]]]

RECURSIVE FoldIdx(_, _, _)
FoldIdx(op, S, data) ==
    IF S = {} THEN Identity(op)
    ELSE LET x == CHOOSE x \in S : TRUE
         IN  Combine(op, data[x], FoldIdx(op, S \ {x}, data))

\* np.<op>.reduce(result, axis, keepdims), np.any and np.all.
ReduceBuf(op, buf, axis, keepdims) ==
    LET n    == Len(buf.shape)
        axes == NormAxis(axis, buf.shape)
        kept == KeptDims(n, axes)
        shp  == ReducedShape(buf.shape, axes, keepdims)
        src(j) == {idx \in AllIdx(buf.shape) :
                      \A k \in 1..Len(kept) :
                          idx[kept[k]] = IF keepdims THEN j[kept[k]] ELSE j[k]}
    IN  IF \E a \in axes : a >= n THEN RaisedOut
        ELSE IF op \in {"MIN", "MAX"} /\ \E a \in axes : buf.shape[a + 1] = 0
        THEN RaisedOut
        ELSE Buf(shp, [j \in AllIdx(shp) |-> FoldIdx(op, src(j), buf.data)])

\* reduce_op.value(x, y) of two arrays, broadcast together.
CombineBufs(op, x, y) ==
    IF ~KernelCompatible(<<x, y>>) THEN RaisedOut
    ELSE LET shp == KernelShape(<<x, y>>)
         IN  Buf(shp, [idx \in AllIdx(shp) |->
                          Combine(op, BroadcastRead(x, idx), BroadcastRead(y, idx))])

(***************************************************************************)
(* do_slices_intersect(_slice, slice_) as reduce_slices calls it, with the *)
(* item as the caller gave it: "raised" for the exceptions (len() of a     *)
(* bare index, append on a tuple, .start of an integer).                   *)
(***************************************************************************)
RECURSIVE RawIntersectFrom(_, _, _)
RawIntersectFrom(es, slice_, i) ==
    IF i > Len(es) THEN "yes"
    ELSE IF es[i].t = "int" THEN "raised"
    ELSE IF ~do_slices_intersect(<<Sl(es[i].start, es[i].stop)>>, <<slice_[i]>>)
    THEN "no"
    ELSE RawIntersectFrom(es, slice_, i + 1)

RawIntersect(item, slice_) ==
    IF item.kind = "bare" THEN "raised"
    ELSE IF Len(item.entries) # Len(slice_) THEN "raised"
    ELSE RawIntersectFrom(item.entries, slice_, 1)

(***************************************************************************)
(* reduce_slices(expression, operands, reduce_args, _slice).  _output is   *)
(* None: no reduction method passes one.                                   *)
(***************************************************************************)
ReduceFetch(value, shape, slice_) ==
    IF value.kind = "scalar" THEN ScalarBuf(value.value)
    ELSE IF /\ Len(slice_) = 1
            /\ check_smaller_shape(value.shape, shape, SliceShape(slice_))
            /\ \E k \in 1..Len(value.shape) : value.shape[k] # 1
    THEN RaisedOut                       \* larger_slice[i] of a bare slice
    ELSE FetchSlice(value, shape, slice_)

ReduceChunk(c, slice_, out) ==
    LET bufs    == [k \in 1..Len(c.operands) |->
                       ReduceFetch(c.operands[k], c.shape, slice_)]
        result  == Kernel(bufs)
        reduced == IF result.t = "raised" THEN RaisedOut
                   ELSE ReduceBuf(c.op, result, c.axis, c.keepdims)
        rslice  == ReducedSlice(slice_, c.axes, c.keepdims)
        out1    == IF out.t = "none"
                   THEN NdBuf(c.reduced_shape, <<>>, <<>>,
                              [idx \in AllIdx(c.reduced_shape) |-> Identity(c.op)])
                   ELSE out
    IN  IF \E k \in 1..Len(bufs) : bufs[k].t = "raised" THEN RaisedOut
        ELSE IF c.udf THEN RaisedOut     \* out.dtype of None
        ELSE IF reduced.t = "raised" THEN RaisedOut
        ELSE LET merged == CombineBufs(c.op, GetSlice(out1, rslice), reduced)
             IN  IF merged.t = "raised" THEN RaisedOut
                 ELSE SetSlice(out1, rslice, merged)

RECURSIVE ReduceLoop(_, _, _, _)
ReduceLoop(c, nchunk, _slice, out) ==
    IF nchunk >= c.nchunks THEN out
    ELSE LET slice_ == ChunkSlice(c.shape, c.chunks, nchunk)
             hit    == IF _slice.kind = "none" THEN "yes"
                       ELSE RawIntersect(_slice, slice_)
         IN  IF hit = "raised" THEN RaisedOut
             ELSE IF hit = "no" THEN ReduceLoop(c, nchunk + 1, _slice, out)
             ELSE LET o == ReduceChunk(c, slice_, out)
                  IN  IF o.t = "raised" THEN RaisedOut
                      ELSE ReduceLoop(c, nchunk + 1, _slice, o)

reduce_slices(operands, reduce_args, _slice, udf) ==
    IF RefPosition(operands) = 0 THEN RaisedOut
    ELSE LET operand == operands[RefPosition(operands)]
             shape   == operand.shape
             axes    == NormAxis(reduce_args.axis, shape)
             c == [operands |-> operands, shape |-> shape, chunks |-> operand.chunks,
                   nchunks |-> NChunks(shape, operand.chunks),
                   op |-> reduce_args.op, axis |-> reduce_args.axis, axes |-> axes,
                   keepdims |-> reduce_args.keepdims, udf |-> udf,
                   reduced_shape |-> ReducedShape(shape, axes, reduce_args.keepdims)]
         IN  ReduceLoop(c, 0, _slice, NoneOut)

(***************************************************************************)
(* chunked_eval(expression, operands, item, **kwargs).  args holds the     *)
(* keywords: getitem (_getitem), reduce (_reduce_args, op "none" for an    *)
(* empty dict), udf (the expression is a callable), custom (chunks or      *)
(* blocks given) and grid (the chunk length of the array that slices_eval  *)
(* creates for its chunk grid).                                            *)
(***************************************************************************)
NoReduce == [op |-> "none", axis |-> AxisNone, keepdims |-> FALSE]

ReduceArgs(op, axis, keepdims) == [op |-> op, axis |-> axis, keepdims |-> keepdims]

GridChunks(args) == [i \in 1..MaxNdim |-> args.grid]

\* The branch chunked_eval takes, in the order of its tests.
chunked_eval_path_fast_first(operands, item, out, args) ==
    LET v == validate_inputs(operands, out)
    IN  IF v.raised THEN "raised"
        ELSE IF args.reduce.op # "none" THEN "reduce_slices"
        ELSE IF v.fast_path /\ args.getitem THEN "chunks_getitem"
        ELSE IF v.fast_path /\ ~args.custom /\ (out.t = "none" \/ out.kind = "nd")
        THEN "chunks_eval"
        ELSE IF item.kind # "none" /\ ~IsWholeSlice(item) THEN "slices_eval_item"
        ELSE "slices_eval"

chunked_eval_path(operands, item, out, args) ==
    LET v == validate_inputs(operands, out)
    IN  IF v.raised THEN "raised"
        ELSE IF args.reduce.op # "none" THEN "reduce_slices"
        ELSE IF item.kind # "none" /\ ~IsWholeSlice(item) THEN "slices_eval_item"
        ELSE IF v.fast_path /\ args.getitem THEN "chunks_getitem"
        ELSE IF v.fast_path /\ ~args.custom /\ (out.t = "none" \/ out.kind = "nd")
        THEN "chunks_eval"
        ELSE "slices_eval"

chunked_eval_run(path, operands, item, out, args) ==
    CASE path = "raised" -> RaisedOut
      [] path = "reduce_slices" -> reduce_slices(operands, args.reduce, item, args.udf)
      [] path = "slices_eval_item" ->
            slices_eval(operands, item, args.getitem, out, args.udf, GridChunks(args))
      [] path = "chunks_getitem" -> chunks_getitem(operands, out, args.udf)
      [] path = "chunks_eval" -> chunks_eval(operands, out, args.udf)
      [] path = "slices_eval" ->
            slices_eval(operands, NoItem, args.getitem, out, args.udf, GridChunks(args))

chunked_eval(operands, item, out, args) ==
    chunked_eval_run(chunked_eval_path(operands, item, out, args),
                     operands, item, out, args)

(***************************************************************************)
(* ndarray[item] of NumPy for integers and slices of step 1: an integer    *)
(* removes its dimension and has to be inside it.                          *)
(***************************************************************************)
IndexItem(arr, item) ==
    IF arr.t # "array" THEN RaisedOut            \* None[item]
    ELSE LET x == ExpandItem(item, arr.shape)
             es == item.entries
             kept == LET Kept(i) == ~(i <= Len(es) /\ es[i].t = "int")
                     IN  SelectSeq([i \in 1..Len(arr.shape) |-> i], Kept)
             step == [i \in 1..Len(arr.shape) |->
                         IF i <= Len(es) THEN StepOf(es[i]) ELSE 1]
         IN  IF x.raised THEN RaisedOut
             ELSE LET g   == GetSlice(arr, x.slices)
                      shp == [k \in 1..Len(kept) |->
                                 CeilDiv(g.shape[kept[k]], step[kept[k]])]
                  IN  Buf(shp, [idx \in AllIdx(shp) |->
                                   g.data[[i \in 1..Len(g.shape) |->
                                              IF \E k \in 1..Len(kept) : kept[k] = i
                                              THEN idx[CHOOSE k \in 1..Len(kept) : kept[k] = i]
                                                       * step[i]
                                              ELSE 0]]])

\* LazyExpr.__getitem__(item)
LazyGetitem(operands, item, grid) ==
    LET args    == [getitem |-> TRUE, reduce |-> NoReduce, udf |-> FALSE,
                    custom |-> FALSE, grid |-> grid]
        ndarray == chunked_eval(operands, item, NoneOut, args)
        full_data == item.kind = "none" \/ IsWholeSlice(item)
    IN  IF ndarray.t = "raised" THEN RaisedOut
        ELSE IF full_data THEN IndexItem(ndarray, BareItem(SliceEntry(NoneV, NoneV)))
        ELSE IndexItem(ndarray, item)

\* LazyExpr.eval(item, **kwargs); out is the _output of the node.
LazyEval(operands, item, out, reduce, grid) ==
    chunked_eval(operands, item, out,
                 [getitem |-> FALSE, reduce |-> reduce, udf |-> FALSE,
                  custom |-> FALSE, grid |-> grid])

(***************************************************************************)
(* The evaluator as a state machine: one set of inputs (operands, item,    *)
(* output, keywords) and the outcome of each entry point called on it.     *)
(***************************************************************************)
NotRun == [t |-> "notrun"]

Entries == {"validate", "chunks_eval", "chunks_getitem", "slices_eval",
            "slices_getitem", "getitem", "eval", "reduce", "chunked_eval",
            "first_merge", "eval_item", "remote_getitem", "fetch", "reduce_fetch",
            "shape"}

\* The elements of an array: small integers, zero included.
Data(shape, seed) ==
    [idx \in AllIdx(shape) |-> (RavelIndex(idx, shape) + seed) % 3]

\* The chunk shapes of a shape, and the block shapes of a chunk shape.
Boxes(shape) ==
    {c \in [1..Len(shape) -> 1..MaxOf({shape[i] : i \in 1..Len(shape)})] :
        \A i \in 1..Len(shape) : c[i] <= shape[i]}

\* The chunked arrays of a shape: every chunk shape, with blocks that are
\* the whole chunk or single elements.
NdOperandsOf(shape, seed) ==
    UNION {{NdOperand(shape, c, b, Data(shape, seed)) :
               b \in {c, [i \in 1..Len(shape) |-> 1]}} : c \in Boxes(shape)}

\* The evaluator at rest, for the specifications of the other layers.
EvIdle ==
    /\ ev_operands = <<>>
    /\ ev_item = NoItem
    /\ ev_out = NoneOut
    /\ ev_args = [udf |-> FALSE, grid |-> 1, reduce |-> NoReduce]
    /\ ev_result = [s \in Entries |-> NotRun]

\* No file, no node to save.
SvIdle ==
    /\ store = <<>>
    /\ sv_arrays = <<>>
    /\ sv_node = NoNode
    /\ sv_urlpath = NoValue
    /\ sv_result = NotRun

Idle == ExprInit /\ SvIdle

Ran == {s \in Entries : ev_result[s] # NotRun}

Record(s, outcome) ==
    /\ ev_result' = [ev_result EXCEPT ![s] = outcome]
    /\ UNCHANGED <<ev_operands, ev_item, ev_out, ev_args, exprVars, svVars, runVars, remoteVars>>

CanCall(s) == ev_result[s] = NotRun /\ Cardinality(Ran) < MaxEvalCalls

\* validate_inputs(operands, out=out)
DoValidate ==
    /\ CanCall("validate")
    /\ Record("validate", validate_inputs(ev_operands, ev_out))

\* chunks_eval(expression, operands, _output=out)
DoChunksEval ==
    /\ CanCall("chunks_eval")
    /\ Record("chunks_eval", chunks_eval(ev_operands, ev_out, ev_args.udf))

\* chunks_getitem(expression, operands, out)
DoChunksGetitem ==
    /\ CanCall("chunks_getitem")
    /\ Record("chunks_getitem", chunks_getitem(ev_operands, ev_out, ev_args.udf))

\* slices_eval(expression, operands, _slice=item, _output=out)
DoSlicesEval ==
    /\ CanCall("slices_eval")
    /\ Record("slices_eval",
              slices_eval(ev_operands, ev_item, FALSE, ev_out, ev_args.udf,
                          GridChunks(ev_args)))

\* slices_eval(expression, operands, _slice=item, _getitem=True, _output=out)
DoSlicesGetitem ==
    /\ CanCall("slices_getitem")
    /\ Record("slices_getitem",
              slices_eval(ev_operands, ev_item, TRUE, ev_out, ev_args.udf,
                          GridChunks(ev_args)))

\* node[item] of a LazyExpr over the operands
DoGetitem ==
    /\ CanCall("getitem")
    /\ ~ev_args.udf /\ ev_out.t = "none"
    /\ Record("getitem", LazyGetitem(ev_operands, ev_item, ev_args.grid))

\* node.eval() of a LazyExpr over the operands
DoEval ==
    /\ CanCall("eval")
    /\ ~ev_args.udf
    /\ Record("eval", LazyEval(ev_operands, NoItem, ev_out, NoReduce, ev_args.grid))

\* node.sum(...), node.prod(...), node.min(...), node.max(...), node.any(...)
\* and node.all(...) of a LazyExpr over the operands, with item=item.
DoReduce ==
    /\ CanCall("reduce")
    /\ ~ev_args.udf /\ ev_out.t = "none"
    /\ ev_args.reduce.op # "none"
    /\ Record("reduce",
              LazyEval(ev_operands, ev_item, ev_out, ev_args.reduce, ev_args.grid))

\* chunked_eval(expression, operands, item, _getitem=..., _output=out,
\* _reduce_args=..., chunks=...): the branch taken and what it returns.
DoChunkedEval ==
    /\ CanCall("chunked_eval")
    /\ Record("chunked_eval",
              [t |-> "called",
               path |-> chunked_eval_path(ev_operands, ev_item, ev_out, ev_args),
               result |-> chunked_eval(ev_operands, ev_item, ev_out, ev_args)])

\* node.eval(item=item) of a LazyExpr over the operands
DoEvalItem ==
    /\ CanCall("eval_item")
    /\ ~ev_args.udf
    /\ Record("eval_item",
              LazyEval(ev_operands, ev_item, ev_out, NoReduce, ev_args.grid))

(***************************************************************************)
(* The remote array: slice_to_string(slice_) encodes the item of a request *)
(* and C2Array.__getitem__ sends it.                                       *)
(***************************************************************************)
\* index.start or "", index.stop or ""
OrEmpty(v) == IF v = NoneV \/ v = 0 THEN <<>> ELSE Str(v)

SlicePart(e) ==
    IF e.t = "int" THEN Str(e.start)
    ELSE OrEmpty(e.start) \o <<":">> \o OrEmpty(e.stop)

\* ", ".join(slice_parts)
RECURSIVE JoinParts(_, _)
JoinParts(es, i) ==
    IF i > Len(es) THEN <<>>
    ELSE (IF i > 1 THEN <<",", " ">> ELSE <<>>) \o SlicePart(es[i]) \o JoinParts(es, i + 1)

\* A slice whose step is 1 or None passes for one without a step.
slice_to_string_any_step(item) ==
    IF item.kind = "none" \/ item.entries = <<>> \/ IsWholeSlice(item)
    THEN [raised |-> FALSE, str |-> <<>>]
    ELSE [raised |-> FALSE, str |-> JoinParts(item.entries, 1)]

slice_to_string(item) ==
    IF item.kind = "none" \/ item.entries = <<>> \/ IsWholeSlice(item)
    THEN [raised |-> FALSE, str |-> <<>>]
    ELSE IF \E i \in 1..Len(item.entries) :
                item.entries[i].t = "slice" /\ StepOf(item.entries[i]) # 1
    THEN [raised |-> TRUE, str |-> <<>>]           \* IndexError
    ELSE [raised |-> FALSE, str |-> JoinParts(item.entries, 1)]

\* C2Array.__getitem__(slice_): the request that is sent, if any.
C2Getitem(item) ==
    IF slice_to_string(item).raised THEN [t |-> "raised", sent |-> FALSE, slice_ |-> <<>>]
    ELSE [t |-> "fetched", sent |-> TRUE, slice_ |-> slice_to_string(item).str]

DoRemoteGetitem ==
    /\ CanCall("remote_getitem")
    /\ Record("remote_getitem", C2Getitem(ev_item))

(***************************************************************************)
(* Validation: operand lists of every shape of one or two dimensions.      *)
(***************************************************************************)
VShapes == UNION {[1..n -> 1..3] : n \in 1..MaxNdim}

VOperands ==
    {NdOperand(s, s, s, Data(s, 1)) : s \in VShapes}
        \cup {NpOperand(s, Data(s, 1)) : s \in VShapes}

VOperandLists ==
    {<<a>> : a \in VOperands}
        \cup {<<a, b>> : a \in VOperands, b \in VOperands}
        \cup {<<a, b, c>> : a \in {x \in VOperands : x.kind = "nd"},
                            b \in {x \in VOperands : x.kind = "nd"},
                            c \in {NdOperand(s, s, s, Data(s, 1)) :
                                      s \in {<<3>>, <<1, 3>>, <<2, 1>>}}}

ValidateInit ==
    /\ Idle
    /\ ev_operands \in VOperandLists
    /\ ev_item = NoItem
    /\ ev_out = NoneOut
    /\ ev_args = [udf |-> FALSE, grid |-> 1, reduce |-> NoReduce]
    /\ ev_result = [s \in Entries |-> NotRun]

ValidateNext == DoValidate

ValidateSpec == ValidateInit /\ [][ValidateNext]_vars

(***************************************************************************)
(* Evaluation: chunked, NumPy and scalar operands, with and without an     *)
(* item and an output.                                                     *)
(***************************************************************************)
EvShapes == {<<3>>, <<1>>, <<2, 2>>, <<1, 2>>}

EvNdOperands == UNION {NdOperandsOf(s, 1) : s \in EvShapes}

EvNpOperands == {NpOperand(s, Data(s, 2)) : s \in {<<3>>, <<1, 2>>}}

EvOperands == EvNdOperands \cup EvNpOperands \cup {ScalarOperand(2)}

EvOperandLists ==
    {<<a>> : a \in EvNdOperands \cup EvNpOperands}
        \cup {<<a, b>> : a \in EvNdOperands, b \in EvOperands}
        \cup {<<a, b>> : a \in EvNpOperands \cup {ScalarOperand(2)}, b \in EvNdOperands}

EvItems ==
    {NoItem, BareItem(SliceEntry(NoneV, NoneV)), BareItem(SliceEntry(0, 0)),
     BareItem(SliceEntry(1, 3)), BareItem(IntEntry(0)),
     TupleItem(<<SliceEntry(0, 1), SliceEntry(1, 2)>>)}

\* The outputs a caller can supply for these operands: none, a NumPy
\* buffer or a chunked container, of the shape of the first chunked
\* operand (of the first array when no operand is chunked).
EvOuts(operands) ==
    LET arrs == ArrayPositions(operands)
        nds  == NdPositions(operands)
        shp  == IF Len(nds) = 0 THEN operands[arrs[1]].shape
                ELSE operands[nds[1]].shape
        chk  == IF Len(nds) = 0 THEN shp ELSE operands[nds[1]].chunks
    IN  {NoneOut, Full(shp, 7), NdBuf(shp, chk, chk, [idx \in AllIdx(shp) |-> 7])}

EvalInit ==
    /\ Idle
    /\ ev_operands \in EvOperandLists
    /\ ev_item \in EvItems
    /\ ev_out \in EvOuts(ev_operands)
    /\ ev_args \in {a \in [udf : BOOLEAN, grid : {1, 2}, reduce : {NoReduce}] :
                       a.udf => ev_out.t # "none"}
    /\ ev_result = [s \in Entries |-> NotRun]

EvalNext ==
    \/ DoChunksEval
    \/ DoChunksGetitem
    \/ DoSlicesEval
    \/ DoSlicesGetitem
    \/ DoGetitem
    \/ DoEval

EvalSpec == EvalInit /\ [][EvalNext]_vars

(***************************************************************************)
(* The classical broadcast rule, stated on pairs of right-aligned shapes,  *)
(* and the shape it gives.                                                 *)
(***************************************************************************)
Aligned(shape, n, d) == IF d <= n - Len(shape) THEN 1 ELSE shape[d - (n - Len(shape))]

BroadcastRule(shapes) ==
    LET n == MaxLen(shapes)
    IN  \A j, k \in 1..Len(shapes) : \A d \in 1..n :
            LET x == Aligned(shapes[j], n, d)
                y == Aligned(shapes[k], n, d)
            IN  x = y \/ x = 1 \/ y = 1

DimMax(shapes) ==
    LET n == MaxLen(shapes)
    IN  [d \in 1..n |-> MaxOf({Aligned(shapes[k], n, d) : k \in 1..Len(shapes)})]

ArrayShapes == ShapesOf(ev_operands, ArrayPositions(ev_operands))

\* C5: validate_inputs accepts a non-empty set of array operand shapes
\* exactly when the right-aligned broadcast rule admits it, and the shape
\* it reports is the dimension-wise maximum of the right-aligned shapes,
\* whatever the order of the operands.
C5_ValidateBroadcastShape ==
    (ev_result["validate"] # NotRun /\ Len(ArrayShapes) > 0)
        => /\ ev_result["validate"].raised <=> ~BroadcastRule(ArrayShapes)
           /\ ~ev_result["validate"].raised
                  => ev_result["validate"].shape = DimMax(ArrayShapes)

\* The part of C5 that the code keeps: acceptance follows the broadcast rule.
ValidateAcceptsByRule ==
    (ev_result["validate"] # NotRun /\ Len(ArrayShapes) > 0)
        => (ev_result["validate"].raised <=> ~BroadcastRule(ArrayShapes))

(***************************************************************************)
(* Outputs compared element for element.                                   *)
(***************************************************************************)
SameOutput(x, y) ==
    /\ x.t = y.t
    /\ x.t = "array" => (x.shape = y.shape /\ x.data = y.data)

AllChunked == \A k \in 1..Len(ev_operands) : ev_operands[k].kind \in {"nd", "scalar"}

SameShapes == \A j, k \in 1..Len(ArrayShapes) : ArrayShapes[j] = ArrayShapes[k]

FastPathEligible ==
    /\ AllChunked
    /\ ev_out.t = "none" \/ ev_out.kind = "nd"
    /\ ~validate_inputs(ev_operands, ev_out).raised
    /\ validate_inputs(ev_operands, ev_out).fast_path

\* C6: for chunked operands (and an optional chunked output) with the same
\* chunks and blocks, for which validation grants the fast path, padded
\* shapes included, chunks_eval gives element for element the output of
\* slices_eval on the same inputs.
C6_FastPathDeterminism ==
    (/\ ev_result["chunks_eval"] # NotRun
     /\ ev_result["slices_eval"] # NotRun
     /\ ev_item = NoItem
     /\ FastPathEligible)
        => SameOutput(ev_result["chunks_eval"], ev_result["slices_eval"])

\* The part of C6 that the code keeps: operands of one shape.
FastPathSameShape ==
    (/\ ev_result["chunks_eval"] # NotRun
     /\ ev_result["slices_eval"] # NotRun
     /\ ev_item = NoItem
     /\ FastPathEligible
     /\ SameShapes)
        => SameOutput(ev_result["chunks_eval"], ev_result["slices_eval"])

\* An item of in-bounds integers and step-1 slices for a shape.
ItemFits(item, shape) ==
    /\ Len(item.entries) <= Len(shape)
    /\ \A i \in 1..Len(item.entries) :
           item.entries[i].t = "int" => item.entries[i].start < shape[i]

\* C7: node[item] equals the full evaluation of the node indexed by item,
\* for every item of in-bounds integers and step-1 slices; the whole-array
\* item gives what no item gives.
C7_GetitemIsSliceOfEval ==
    (/\ ev_result["getitem"] # NotRun
     /\ ev_result["eval"] # NotRun
     /\ ev_out = NoneOut
     /\ ev_result["eval"].t = "array"
     /\ ItemFits(ev_item, ev_result["eval"].shape))
        => SameOutput(ev_result["getitem"], IndexItem(ev_result["eval"], ev_item))

\* The part of C7 that the code keeps: items that select at least one
\* element, on operands of one shape.
GetitemNonEmpty ==
    (/\ ev_result["getitem"] # NotRun
     /\ ev_result["eval"] # NotRun
     /\ ev_out = NoneOut
     /\ ev_result["eval"].t = "array"
     /\ ItemFits(ev_item, ev_result["eval"].shape)
     /\ SameShapes
     /\ Prod(IndexItem(ev_result["eval"], ev_item).shape) > 0)
        => SameOutput(ev_result["getitem"], IndexItem(ev_result["eval"], ev_item))

(***************************************************************************)
(* Reductions and readers with an item.                                    *)
(***************************************************************************)
RdShapes == {<<3>>, <<1>>, <<2, 2>>, <<1, 2>>}

RdFirst == UNION {{NdOperand(s, c, c, Data(s, 0)) : c \in Boxes(s)} : s \in RdShapes}

RdSecond ==
    {NdOperand(s, s, s, Data(s, 1)) : s \in RdShapes}
        \cup {NpOperand(s, Data(s, 1)) : s \in {<<3>>, <<2, 2>>}}
        \cup {ScalarOperand(2)}

RdOperandLists ==
    {<<a>> : a \in RdFirst} \cup {<<a, b>> : a \in RdFirst, b \in RdSecond}

RdItems ==
    {NoItem, TupleItem(<<SliceEntry(0, 0)>>),
     TupleItem(<<SliceEntry(0, 0), SliceEntry(NoneV, NoneV)>>),
     TupleItem(<<SliceEntry(1, 2)>>), BareItem(SliceEntry(0, 0))}

RdArgs ==
    {ReduceArgs(op, axis, keepdims) :
        op \in ReduceOps,
        axis \in {AxisNone, AxisInt(0), AxisInt(1), AxisTuple({}), AxisTuple({0, 1})},
        keepdims \in BOOLEAN}

ReduceInit ==
    /\ Idle
    /\ ev_operands \in RdOperandLists
    /\ ev_item \in RdItems
    /\ ev_args \in [udf : {FALSE}, grid : {1}, reduce : RdArgs \cup {NoReduce}]
    /\ ev_out \in IF ev_args.reduce = NoReduce
                  THEN {NoneOut, Full(ev_operands[1].shape, 7)}
                  ELSE {NoneOut}
    /\ ev_result = [s \in Entries |-> NotRun]

ReduceNext ==
    \/ DoReduce
    \/ DoSlicesGetitem

ReduceSpec == ReduceInit /\ [][ReduceNext]_vars

(***************************************************************************)
(* The reference the evaluator plans its chunks on, the chunks an item     *)
(* selects, and the evaluation of the whole operands at once.              *)
(***************************************************************************)
Reference == ev_operands[RefPosition(ev_operands)]

\* With a supplied output the reader plans on the first chunked operand.
ReaderReference == ev_operands[NdPositions(ev_operands)[1]]

\* The item and chunk nchunk have an index in common.
Selects(item, shape, chunks, nchunk) ==
    LET x == ExpandItem(item, shape).slices
        c == ChunkSlice(shape, chunks, nchunk)
    IN  \A i \in 1..Len(shape) :
            Max2(x[i].start, c[i].start) < Min2(x[i].stop, c[i].stop)

SelectsNoChunk(item, shape, chunks) ==
    /\ item.kind # "none"
    /\ ItemFits(item, shape)
    /\ \A nchunk \in 0..(NChunks(shape, chunks) - 1) :
           ~Selects(item, shape, chunks, nchunk)

WholeArray ==
    Kernel([k \in 1..Len(ev_operands) |->
               IF ev_operands[k].kind = "scalar" THEN ScalarBuf(ev_operands[k].value)
               ELSE AsBuf(ev_operands[k])])

AxesFit(shape) ==
    \A a \in NormAxis(ev_args.reduce.axis, shape) : a < Len(shape)

\* C8: with an item that intersects no chunk of the reference operand, a
\* reduction returns an output of the reduced shape filled with the
\* identity of the operation, and a reader returns the supplied output
\* buffer with every element unchanged.
C8_DisjointItemIdentity ==
    /\ (/\ ev_result["reduce"] # NotRun
        /\ AxesFit(Reference.shape)
        /\ SelectsNoChunk(ev_item, Reference.shape, Reference.chunks))
           => /\ ev_result["reduce"].t = "array"
              /\ ev_result["reduce"].shape =
                     ReducedShape(Reference.shape,
                                  NormAxis(ev_args.reduce.axis, Reference.shape),
                                  ev_args.reduce.keepdims)
              /\ \A idx \in AllIdx(ev_result["reduce"].shape) :
                     ev_result["reduce"].data[idx] = Identity(ev_args.reduce.op)
    /\ (/\ ev_result["slices_getitem"] # NotRun
        /\ ev_out.t = "array"
        /\ SelectsNoChunk(ev_item, ReaderReference.shape, ReaderReference.chunks))
           => ev_result["slices_getitem"] = ev_out

\* The part of C8 that the code keeps: the reader's buffer is untouched.
ReaderBufferUntouched ==
    (/\ ev_result["slices_getitem"] # NotRun
     /\ ev_out.t = "array"
     /\ SelectsNoChunk(ev_item, ReaderReference.shape, ReaderReference.chunks))
        => ev_result["slices_getitem"] = ev_out

\* C9: for every shape, chunking of the reference, subset of axes and
\* keepdims, the output of reduce_slices for SUM, PROD, MIN, MAX, ANY and
\* ALL equals the same reduction of the whole evaluated array.
C9_ReductionDecomposes ==
    (/\ ev_result["reduce"] # NotRun
     /\ ev_item = NoItem
     /\ ~validate_inputs(ev_operands, ev_out).raised
     /\ WholeArray.t = "array"
     /\ AxesFit(WholeArray.shape))
        => SameOutput(ev_result["reduce"],
                      ReduceBuf(ev_args.reduce.op, WholeArray, ev_args.reduce.axis,
                                ev_args.reduce.keepdims))

\* The part of C9 that the code keeps: operands of one shape.
ReductionSameShape ==
    (/\ ev_result["reduce"] # NotRun
     /\ ev_item = NoItem
     /\ ~validate_inputs(ev_operands, ev_out).raised
     /\ SameShapes
     /\ AxesFit(WholeArray.shape))
        => SameOutput(ev_result["reduce"],
                      ReduceBuf(ev_args.reduce.op, WholeArray, ev_args.reduce.axis,
                                ev_args.reduce.keepdims))

(***************************************************************************)
(* Paths.  A path is absolute or relative and has a sequence of parts;     *)
(* the file it names is found from the working directory of the process.   *)
(***************************************************************************)
Rel(parts) == [t |-> "path", abs |-> FALSE, parts |-> parts]

Abs(parts) == [t |-> "path", abs |-> TRUE, parts |-> parts]

Cwd == <<"w">>

\* Path(p).parent
PathParent(p) ==
    [p EXCEPT !.parts = IF Len(p.parts) = 0 THEN <<>>
                        ELSE SubSeq(p.parts, 1, Len(p.parts) - 1)]

\* parent / value
PathJoin(parent, value) ==
    IF value.abs THEN value ELSE [parent EXCEPT !.parts = parent.parts \o value.parts]

\* The file a path names.
FileOf(p) == IF p.abs THEN p.parts ELSE Cwd \o p.parts

(***************************************************************************)
(* eval(expr, globals, operands_dict) of Python on the expressions the     *)
(* library writes with binary operators: "(" X " " op " " Y ")" over       *)
(* placeholders and numbers.  The operators of the operands rebuild the    *)
(* node: the operator of a LazyExpr is update_expr on it, the operator of  *)
(* an array builds LazyExpr(new_op=(x, op, y)), the reflected operator of  *)
(* a LazyExpr serves a scalar on the left.  The result is                  *)
(* [raised, val, pos], pos the position after the text read.               *)
(***************************************************************************)
\* The number of identifier characters that follow position i.
RECURSIVE IdentRun(_, _)
IdentRun(expr, i) ==
    IF i < Len(expr) /\ expr[i + 1] \in IdentChars THEN 1 + IdentRun(expr, i + 1) ELSE 0

\* The identifier that starts at position i.
IdentAt(expr, i) == SubSeq(expr, i, i + IdentRun(expr, i))

StartsIdent(expr, i) ==
    /\ expr[i] \in IdentChars \ DigitChars
    /\ i = 1 \/ expr[i - 1] \notin IdentChars

\* The identifiers of an expression.
Identifiers(expr) == {IdentAt(expr, i) : i \in {j \in 1..Len(expr) : StartsIdent(expr, j)}}

\* The functions the module hands to the kernel and to eval.
functions ==
    {<<"s", "i", "n">>,
     <<"c", "o", "s">>,
     <<"t", "a", "n">>,
     <<"s", "q", "r", "t">>,
     <<"s", "i", "n", "h">>,
     <<"c", "o", "s", "h">>,
     <<"t", "a", "n", "h">>,
     <<"a", "r", "c", "s", "i", "n">>,
     <<"a", "r", "c", "c", "o", "s">>,
     <<"a", "r", "c", "t", "a", "n">>,
     <<"a", "r", "c", "t", "a", "n", "2">>,
     <<"a", "r", "c", "s", "i", "n", "h">>,
     <<"a", "r", "c", "c", "o", "s", "h">>,
     <<"a", "r", "c", "t", "a", "n", "h">>,
     <<"e", "x", "p">>,
     <<"e", "x", "p", "m", "1">>,
     <<"l", "o", "g">>,
     <<"l", "o", "g", "1", "0">>,
     <<"l", "o", "g", "1", "p">>,
     <<"c", "o", "n", "j">>,
     <<"r", "e", "a", "l">>,
     <<"i", "m", "a", "g">>,
     <<"c", "o", "n", "t", "a", "i", "n", "s">>,
     <<"a", "b", "s">>}

\* The names of an operand table of n entries.
TableNames(n) == {OName(k) : k \in 0..(n - 1)}

\* ne.validate(expression, locals=operands): it RETURNS the exception the
\* expression would raise (here for a name that is neither in the table
\* nor a function), or None; it never raises.
ValidateError == [t |-> "exception"]

ne_validate(expr, n) ==
    IF Identifiers(expr) \subseteq (TableNames(n) \cup functions)
    THEN NoValue ELSE ValidateError

\* ne.evaluate(expression, scalar_inputs) raises on a name it cannot find.
KernelRaises(expr, n) == ne_validate(expr, n) # NoValue

\* The names eval finds in neither operands_dict nor globals but in
\* Python's builtins, and the object such a name gives: any object that is
\* no scalar, has no shape and is no LazyExpr is an operand like an array.
PyBuiltins == {<<"i", "d">>}

Builtin(name) == [t |-> "arr", id |-> <<0, name>>]

PyFail == [raised |-> TRUE, val |-> NoValue, pos |-> 0]

PyOk(val, pos) == [raised |-> FALSE, val |-> val, pos |-> pos]

\* The LazyExpr an operator returned, or its exception.
PyLift(r) == IF r.raised THEN PyFail ELSE PyOk(Lazy(r), 0)

\* The result r, read up to pos.
PyAt(r, pos) == IF r.raised THEN PyFail ELSE PyOk(r.val, pos)

PyBinOp(x, op, y) ==
    IF x.t = "scalar" /\ y.t = "scalar"
    THEN IF op = OpSub THEN PyOk(Sca(x.v - y.v), 0)
         ELSE IF op = OpAdd THEN PyOk(Sca(x.v + y.v), 0)
         ELSE PyFail
    ELSE PyLift(IF x.t = "expr" THEN update_expr(x, x, op, y)
                ELSE IF y.t = "expr" /\ x.t = "scalar" THEN update_expr(y, x, op, y)
                ELSE LazyExprInit(x, op, y))

\* The position of the first blank at or after i, 0 when there is none.
RECURSIVE NextBlank(_, _)
NextBlank(expr, i) ==
    IF i > Len(expr) THEN 0
    ELSE IF expr[i] = " " THEN i
    ELSE NextBlank(expr, i + 1)

\* The operator applied once both sides are read: y must end at ")".
PyApply(expr, x, op, y) ==
    IF y.raised \/ y.pos > Len(expr) THEN PyFail
    ELSE IF expr[y.pos] # ")" THEN PyFail
    ELSE PyAt(PyBinOp(x.val, op, y.val), y.pos + 1)

RECURSIVE PyEvalAt(_, _, _)
\* The right side, read once the left side x and " op " are.
PyRight(expr, env, x) ==
    IF x.raised \/ x.pos > Len(expr) THEN PyFail
    ELSE IF expr[x.pos] # " " \/ NextBlank(expr, x.pos + 1) = 0 THEN PyFail
    ELSE PyApply(expr, x,
                 SubSeq(expr, x.pos + 1, NextBlank(expr, x.pos + 1) - 1),
                 PyEvalAt(expr, env, NextBlank(expr, x.pos + 1) + 1))

PyEvalAt(expr, env, i) ==
    IF i > Len(expr) THEN PyFail
    ELSE IF expr[i] = "("
    THEN PyRight(expr, env, PyEvalAt(expr, env, i + 1))
    ELSE IF expr[i] = "o" /\ DigitRun(expr, i) > 0
    THEN IF PlaceholderAt(expr, i) >= Len(env) THEN PyFail      \* NameError
         ELSE PyOk(env[PlaceholderAt(expr, i) + 1], i + DigitRun(expr, i) + 1)
    ELSE IF expr[i] \in DigitChars
    THEN PyOk(Sca(ParseInt(SubSeq(expr, i, i + DigitRun(expr, i)))),
              i + DigitRun(expr, i) + 1)
    ELSE IF expr[i] \in IdentChars /\ IdentAt(expr, i) \in PyBuiltins
    THEN PyOk(Builtin(IdentAt(expr, i)), i + IdentRun(expr, i) + 1)
    ELSE PyFail                                              \* NameError

\* Text left after the expression is a SyntaxError.
PyWhole(expr, r) == IF r.raised \/ r.pos # Len(expr) + 1 THEN PyFail ELSE r

PyEval(expr, env) ==
    PyWhole(expr, PyEvalAt(expr, env, 1))

(***************************************************************************)
(* Files.  store maps a file to what it holds: nothing, an array, or the   *)
(* container of a saved LazyExpr with its variable-length metadata.        *)
(* sv_arrays gives every array object its kind and its urlpath (NoValue    *)
(* for an array in memory).                                                *)
(***************************************************************************)
NoFile == [kind |-> "nofile"]

ArrayFile(a) == [kind |-> "array", id |-> a]

NoMeta == [t |-> "none"]

\* LazyArrayEnum: the kind the container's meta["LazyArray"] holds.
ExprKind == 0

UdfKind == 1

LazyFile(vlmeta) == [kind |-> "lazy", lazyarray |-> ExprKind, vlmeta |-> vlmeta]

\* The value of vlmeta["_LazyArray"].
Meta(expression, udf, operands) ==
    [t |-> "meta", expression |-> expression, UDF |-> udf, operands |-> operands]

FileAt(files, path) ==
    IF FileOf(path) \in DOMAIN files THEN files[FileOf(path)] ELSE NoFile

WriteFile(files, path, content) ==
    [f \in DOMAIN files \cup {FileOf(path)} |->
        IF f = FileOf(path) THEN content ELSE files[f]]

(***************************************************************************)
(* LazyExpr.save(urlpath=urlpath): [raised, files].  The container is      *)
(* created, overwriting the file at urlpath, before the operands are       *)
(* looked at; the metadata is written last.                                *)
(***************************************************************************)
\* The first operand, in table order, that save rejects; 0 when none.
FirstRejected(node, arrays) ==
    IF \E k \in 1..Len(node.operands) :
           \/ arrays[node.operands[k]].kind # "nd"
           \/ arrays[node.operands[k]].urlpath.t = "none"
    THEN CHOOSE k \in 1..Len(node.operands) :
             /\ \/ arrays[node.operands[k]].kind # "nd"
                \/ arrays[node.operands[k]].urlpath.t = "none"
             /\ \A j \in 1..(k - 1) :
                    /\ arrays[node.operands[j]].kind = "nd"
                    /\ arrays[node.operands[j]].urlpath.t # "none"
    ELSE 0

save(node, arrays, urlpath, files) ==
    IF urlpath.t = "none"
    THEN [raised |-> TRUE, created |-> FALSE, wrote |-> FALSE, files |-> files]
    \* self.dtype evaluates the expression over the operand table
    ELSE IF ~WellFormed(node) \/ KernelRaises(node.expression, Len(node.operands))
    THEN [raised |-> TRUE, created |-> FALSE, wrote |-> FALSE, files |-> files]
    ELSE IF FirstRejected(node, arrays) # 0
    THEN [raised |-> TRUE, created |-> TRUE, wrote |-> FALSE,
          files |-> WriteFile(files, urlpath, LazyFile(NoMeta))]
    \* the value ne.validate returns is dropped
    ELSE [raised |-> FALSE, created |-> TRUE, wrote |-> TRUE,
          files |-> WriteFile(files, urlpath,
              LazyFile(Meta(node.expression, NoValue,
                            [k \in 1..Len(node.operands) |->
                                arrays[node.operands[k]].urlpath])))]

\* LazyUDF.save(**kwargs)
udf_save(files) ==
    [raised |-> TRUE, created |-> FALSE, wrote |-> FALSE, files |-> files]

(***************************************************************************)
(* blosc2.open(urlpath) and _open_lazyarray(array).  An operand is opened  *)
(* at parent_path / value; the object it gives is a new one for every      *)
(* name, identified here by the name's position and the array it holds.    *)
(***************************************************************************)
OpenRaised == [t |-> "raised"]

RECURSIVE open(_, _)
\* The operands of a saved expression, each opened at parent_path / value.
OpenOperands(files, urlpath, vlmeta) ==
    [k \in 1..Len(vlmeta.operands) |->
        open(files, PathJoin(PathParent(urlpath), vlmeta.operands[k]))]

\* operands_dict: a new object for every name.
OperandsDict(opened) ==
    [k \in 1..Len(opened) |->
        IF opened[k].t = "arr" THEN Arr(<<k, opened[k].id>>) ELSE opened[k]]

\* The node eval gives; expr.array = array needs an object that takes
\* attributes.
Rebuilt(r) == IF r.raised \/ r.val.t # "expr" THEN OpenRaised ELSE r.val

\* The statements of _open_lazyarray that follow the loop over the
\* operands: ne.validate, whose value is dropped, and eval.
Rebuild(expression, opened) ==
    IF \E k \in 1..Len(opened) : opened[k].t = "raised" THEN OpenRaised
    ELSE Rebuilt(PyEval(expression, OperandsDict(opened)))

OpenLazy(files, urlpath, file) ==
    IF file.lazyarray = UdfKind THEN OpenRaised          \* NotImplementedError
    ELSE IF file.vlmeta.t = "none" THEN OpenRaised       \* KeyError
    ELSE Rebuild(file.vlmeta.expression, OpenOperands(files, urlpath, file.vlmeta))

OpenFile(files, urlpath, file) ==
    IF file.kind = "nofile" THEN OpenRaised
    ELSE IF file.kind = "array" THEN Arr(file.id)
    ELSE OpenLazy(files, urlpath, file)

open(files, urlpath) == OpenFile(files, urlpath, FileAt(files, urlpath))

\* What _open_lazyarray did with the expression of the container at
\* urlpath: the value ne.validate returned and whether eval was reached.
NotReached == [t |-> "notreached"]

ReachesEval(files, urlpath) ==
    LET file == FileAt(files, urlpath)
    IN  /\ file.kind = "lazy"
        /\ file.lazyarray # UdfKind
        /\ file.vlmeta.t # "none"
        /\ \A k \in 1..Len(file.vlmeta.operands) :
               open(files, PathJoin(PathParent(urlpath), file.vlmeta.operands[k])).t
                   # "raised"

Validated(files, urlpath) ==
    IF ReachesEval(files, urlpath)
    THEN ne_validate(FileAt(files, urlpath).vlmeta.expression,
                     Len(FileAt(files, urlpath).vlmeta.operands))
    ELSE NotReached

(***************************************************************************)
(* Saving and reopening as a state machine: the arrays are placed in the   *)
(* working directory or below it and named by relative or absolute paths.  *)
(***************************************************************************)
FileName(a) == CHOOSE n \in {"a", "b", "c"} :
                   <<a, n>> \in {<<"A", "a">>, <<"B", "b">>, <<"C", "c">>}

\* The ways one array can be held: in memory, or on disk in a directory
\* and named by a relative or an absolute path.
Holdings(a) ==
    {[kind |-> "nd", urlpath |-> NoValue], [kind |-> "np", urlpath |-> NoValue]}
        \cup {[kind |-> "nd", urlpath |-> Rel(d \o <<FileName(a)>>)] :
                 d \in {<<>>, <<"sub">>}}
        \cup {[kind |-> "nd", urlpath |-> Abs(Cwd \o d \o <<FileName(a)>>)] :
                 d \in {<<>>, <<"sub">>}}

N_AB == Node(LazyExprInit(Arr("A"), OpSub, Arr("B")))

N_CA == Node(LazyExprInit(Arr("C"), OpSub, Arr("A")))

\* a - b, a - 2, a - a, (a - b) - c, c - (a - b) by the reflected operator,
\* c - (a - b) by the operator of the array, (a - b) - (c - a).
SvNodes ==
    {N_AB,
     Node(LazyExprInit(Arr("A"), OpSub, Sca(2))),
     Node(LazyExprInit(Arr("A"), OpSub, Arr("A"))),
     Node(update_expr(N_AB, Lazy(N_AB), OpSub, Arr("C"))),
     Node(update_expr(N_AB, Arr("C"), OpSub, Lazy(N_AB))),
     Node(LazyExprInit(Arr("C"), OpSub, Lazy(N_AB))),
     Node(update_expr(N_AB, Lazy(N_AB), OpSub, Lazy(N_CA)))}

SvUrlpaths ==
    {NoValue, Rel(<<"e">>), Rel(<<"sub", "e">>), Abs(Cwd \o <<"sub", "e">>)}

FilesOf(arrays) ==
    [f \in {FileOf(arrays[a].urlpath) : a \in {x \in Arrays : arrays[x].urlpath.t # "none"}} |->
        ArrayFile(CHOOSE a \in Arrays :
                      arrays[a].urlpath.t # "none" /\ FileOf(arrays[a].urlpath) = f)]

SaveInit ==
    /\ ExprInit /\ EvIdle
    /\ sv_arrays \in [Arrays -> UNION {Holdings(a) : a \in Arrays}]
    /\ \A a \in Arrays : sv_arrays[a] \in Holdings(a)
    /\ store = FilesOf(sv_arrays)
    /\ sv_node \in SvNodes
    /\ sv_urlpath \in SvUrlpaths
    /\ sv_result = [saved |-> NotRun, opened |-> NotRun]

\* node.save(urlpath=sv_urlpath)
Save ==
    LET r == save(sv_node, sv_arrays, sv_urlpath, store)
    IN  /\ sv_result.saved = NotRun
        /\ "expression" \in DOMAIN sv_node
        /\ store' = r.files
        /\ sv_result' = [sv_result EXCEPT !.saved =
                            [t |-> "done", raised |-> r.raised,
                             created |-> r.created, wrote |-> r.wrote]]
        /\ UNCHANGED <<sv_arrays, sv_node, sv_urlpath, exprVars, evVars, runVars, remoteVars>>

\* blosc2.open(sv_urlpath)
Open ==
    /\ sv_urlpath.t # "none"
    /\ sv_result.opened = NotRun
    /\ sv_result' = [sv_result EXCEPT !.opened =
                        [t |-> "done", saved |-> sv_result.saved,
                         file |-> FileAt(store, sv_urlpath),
                         validated |-> Validated(store, sv_urlpath),
                         executed |-> ReachesEval(store, sv_urlpath),
                         node |-> open(store, sv_urlpath)]]
    /\ UNCHANGED <<store, sv_arrays, sv_node, sv_urlpath, exprVars, evVars, runVars, remoteVars>>

SaveNext ==
    \/ Save
    \/ Open

SaveSpec == SaveInit /\ [][SaveNext]_vars

\* The reopened node with every operand object replaced by the array its
\* file holds.
Reopened ==
    [expression |-> sv_result.opened.node.expression,
     operands |-> [k \in 1..Len(sv_result.opened.node.operands) |->
                      sv_result.opened.node.operands[k][2]]]

SavedThenOpened ==
    /\ sv_result.opened # NotRun
    /\ sv_result.opened.saved # NotRun
    /\ ~sv_result.opened.saved.raised

\* C10: for every LazyExpr over persistent chunked arrays, nested and
\* fused ones included, and every placement of the operand files relative
\* to the output path, save followed by open gives a LazyExpr whose
\* placeholders are bound to the same stored arrays and which evaluates as
\* the original.
C10_SaveOpenRoundTrip ==
    SavedThenOpened
        => /\ sv_result.opened.node.t = "expr"
           /\ Resolve(Reopened) = Resolve(sv_node)

\* The part of C10 that the code keeps: operands named by absolute paths
\* or lying in the directory of the saved container, for a node whose
\* expression Python rebuilds as it was.
SameDirectory ==
    \A k \in 1..Len(sv_node.operands) :
        LET u == sv_arrays[sv_node.operands[k]].urlpath
        IN  u.abs \/ FileOf(PathJoin(PathParent(sv_urlpath), u)) = FileOf(u)

RoundTripSameDirectory ==
    (SavedThenOpened /\ SameDirectory /\ sv_node = N_AB)
        => /\ sv_result.opened.node.t = "expr"
           /\ Resolve(Reopened) = Resolve(sv_node)

(***************************************************************************)
(* Opening containers found on disk.  The container at the urlpath may     *)
(* have been written earlier by anyone: its kind, its metadata, the        *)
(* expression and the UDF entry of the metadata are what the file holds.   *)
(* The node at hand is built by operators, by lazyexpr(expression,         *)
(* operands) or is a LazyUDF.                                              *)
(***************************************************************************)
\* LazyExpr._new_expr(expression, operands): the value of ne.validate is
\* dropped.
new_expr(expression, operands) == [expression |-> expression, operands |-> operands]

\* A LazyUDF over the array A.
UdfNode == [func |-> "f", inputs |-> <<"A">>]

\* "(o0 - x)", "((o0 - o1) - id)", "(o0 - o2)"
E_x == <<"(", "o", "0", " ", "-", " ", "x", ")">>

E_id == <<"(", "(", "o", "0", " ", "-", " ", "o", "1", ")", " ", "-", " ", "i", "d", ")">>

E_o2 == <<"(", "o", "0", " ", "-", " ", "o", "2", ")">>

StoredExprs == {N_AB.expression, E_x, E_id, E_o2}

OpNodes ==
    {N_AB, new_expr(E_x, <<"A">>), new_expr(E_id, <<"A", "B">>),
     new_expr(E_o2, <<"A", "B">>), UdfNode}

OpHoldings(a) ==
    {[kind |-> "nd", urlpath |-> NoValue],
     [kind |-> "nd", urlpath |-> Rel(<<FileName(a)>>)]}

OpMetas ==
    {NoMeta} \cup
    {Meta(e, u, ops) : e \in StoredExprs, u \in {NoValue, [t |-> "udf"]},
                       ops \in {<<Rel(<<"a">>)>>, <<Rel(<<"a">>), Rel(<<"b">>)>>}}

OpContainers ==
    {NoFile} \cup
    {[kind |-> "lazy", lazyarray |-> k, vlmeta |-> m] :
        k \in {ExprKind, UdfKind}, m \in OpMetas}

OpenInit ==
    /\ ExprInit /\ EvIdle
    /\ sv_arrays \in [Arrays -> UNION {OpHoldings(a) : a \in Arrays}]
    /\ \A a \in Arrays : sv_arrays[a] \in OpHoldings(a)
    /\ sv_urlpath = Rel(<<"e">>)
    /\ \E c \in OpContainers :
           store = IF c = NoFile THEN FilesOf(sv_arrays)
                   ELSE WriteFile(FilesOf(sv_arrays), sv_urlpath, c)
    /\ sv_node \in OpNodes
    /\ sv_result = [saved |-> NotRun, opened |-> NotRun]

\* udf.save(urlpath=sv_urlpath)
SaveUdf ==
    LET r == udf_save(store)
    IN  /\ sv_result.saved = NotRun
        /\ "func" \in DOMAIN sv_node
        /\ store' = r.files
        /\ sv_result' = [sv_result EXCEPT !.saved =
                            [t |-> "done", raised |-> r.raised,
                             created |-> r.created, wrote |-> r.wrote]]
        /\ UNCHANGED <<sv_arrays, sv_node, sv_urlpath, exprVars, evVars, runVars, remoteVars>>

OpenNext ==
    \/ Save
    \/ SaveUdf
    \/ Open

OpenSpec == OpenInit /\ [][OpenNext]_vars

\* An identifier that is neither a placeholder of the table nor a function
\* of the allow-list.
HasForeignName(expr, n) ==
    \E id \in Identifiers(expr) : id \notin TableNames(n) /\ id \notin functions

\* The container that open found holds the metadata of a lazy expression.
OpenedMeta ==
    /\ sv_result.opened # NotRun
    /\ sv_result.opened.file.kind = "lazy"
    /\ sv_result.opened.file.vlmeta.t = "meta"

\* C11: an expression with an identifier that is neither a placeholder of
\* the operand table nor an allow-listed function is rejected: save raises
\* and writes no metadata for it, and open raises without having handed
\* the expression to eval.
C11_ForeignNamesRejected ==
    /\ (/\ sv_result.saved # NotRun
        /\ "expression" \in DOMAIN sv_node
        /\ HasForeignName(sv_node.expression, Len(sv_node.operands)))
           => (sv_result.saved.raised /\ ~sv_result.saved.wrote)
    /\ (/\ OpenedMeta
        /\ sv_result.opened.file.lazyarray = ExprKind
        /\ HasForeignName(sv_result.opened.file.vlmeta.expression,
                          Len(sv_result.opened.file.vlmeta.operands)))
           => (sv_result.opened.node.t = "raised" /\ ~sv_result.opened.executed)

\* What the code keeps of C11: save of such an expression raises before
\* the container is created, and on open ne.validate does report it.
ForeignNamesReported ==
    /\ (/\ sv_result.saved # NotRun
        /\ "expression" \in DOMAIN sv_node
        /\ HasForeignName(sv_node.expression, Len(sv_node.operands)))
           => (sv_result.saved.raised /\ ~sv_result.saved.created)
    /\ (/\ OpenedMeta
        /\ sv_result.opened.executed
        /\ HasForeignName(sv_result.opened.file.vlmeta.expression,
                          Len(sv_result.opened.file.vlmeta.operands)))
           => sv_result.opened.validated = ValidateError

\* C12: opening a container whose metadata has UDF set (UDF kind, or a UDF
\* entry that is not null) raises and returns no lazy node, and saving a
\* LazyUDF raises and writes nothing.
C12_UdfNeverReopened ==
    /\ (/\ sv_result.opened # NotRun
        /\ sv_result.opened.file.kind = "lazy"
        /\ \/ sv_result.opened.file.lazyarray = UdfKind
           \/ /\ sv_result.opened.file.vlmeta.t = "meta"
              /\ sv_result.opened.file.vlmeta.UDF # NoValue)
           => sv_result.opened.node.t = "raised"
    /\ (sv_result.saved # NotRun /\ "func" \in DOMAIN sv_node)
           => (sv_result.saved.raised /\ ~sv_result.saved.wrote)

\* What the code keeps of C12: a container of UDF kind is never opened and
\* a LazyUDF is never saved.
UdfKindRefused ==
    /\ (/\ sv_result.opened # NotRun
        /\ sv_result.opened.file.kind = "lazy"
        /\ sv_result.opened.file.lazyarray = UdfKind)
           => sv_result.opened.node.t = "raised"
    /\ (sv_result.saved # NotRun /\ "func" \in DOMAIN sv_node)
           => (sv_result.saved.raised /\ ~sv_result.saved.created)

\* eval and __getitem__ whose inputs fail validation give no output.
InvalidInputsGiveNoOutput ==
    \A s \in {"eval", "getitem"} :
        (ev_result[s] # NotRun /\ validate_inputs(ev_operands, ev_out).raised)
            => ev_result[s] = RaisedOut

\* C13: a save that raises because an operand is no chunked array or is
\* not stored on disk (or because no urlpath was given) has created or
\* overwritten no container and written no metadata; eval and __getitem__
\* that fail input validation write no output.
C13_ValidationNoSideEffects ==
    /\ (/\ sv_result.saved # NotRun
        /\ sv_result.saved.raised)
           => (~sv_result.saved.created /\ ~sv_result.saved.wrote)
    /\ InvalidInputsGiveNoOutput

\* What the code keeps of C13: a save that raises writes no metadata, and
\* without urlpath it creates nothing.
FailedSaveWritesNoMeta ==
    (sv_result.saved # NotRun /\ sv_result.saved.raised)
        => /\ ~sv_result.saved.wrote
           /\ sv_urlpath.t = "none" => ~sv_result.saved.created

(***************************************************************************)
(* The expression layer on its own: operators build and update LazyExpr    *)
(* objects; nothing is evaluated and nothing is saved.                     *)
(***************************************************************************)
(***************************************************************************)
(* The dispatcher on every combination of its keywords: readers and        *)
(* writers, with and without a reduction, custom chunks and an output.     *)
(***************************************************************************)
DsItems ==
    {NoItem, BareItem(SliceEntry(NoneV, NoneV)), BareItem(SliceEntry(1, 3)),
     BareItem(IntEntry(0)), TupleItem(<<SliceEntry(NoneV, NoneV)>>)}

DsArgs ==
    [udf : {FALSE}, grid : {1}, getitem : BOOLEAN, custom : BOOLEAN,
     reduce : {NoReduce, ReduceArgs("SUM", AxisNone, FALSE)}]

DispatchInit ==
    /\ Idle
    /\ ev_operands \in EvOperandLists
    /\ ev_item \in DsItems
    /\ ev_out \in EvOuts(ev_operands)
    /\ ev_args \in DsArgs
    /\ ev_result = [s \in Entries |-> NotRun]

DispatchNext ==
    \/ DoChunkedEval
    \/ DoValidate

DispatchSpec == DispatchInit /\ [][DispatchNext]_vars

Dispatched == ev_result["chunked_eval"] # NotRun

\* The strategy the priority list names for the inputs, given what
\* validation returned.
PriorityPath(v) ==
    IF ev_args.reduce.op # "none" THEN "reduce_slices"
    ELSE IF ev_item # NoItem /\ ev_item # BareItem(SliceEntry(NoneV, NoneV))
    THEN "slices_eval_item"
    ELSE IF v.fast_path /\ ev_args.getitem THEN "chunks_getitem"
    ELSE IF /\ v.fast_path /\ ~ev_args.getitem /\ ~ev_args.custom
            /\ (ev_out = NoneOut \/ IsNdOut(ev_out))
    THEN "chunks_eval"
    ELSE "slices_eval"

\* C14: whenever the inputs pass validation, the dispatcher takes the
\* strategy of the priority list: the reduction when reduce_args is
\* present, else slices_eval with filtering for an item that is neither
\* None nor the whole slice, else on the fast path chunks_getitem for a
\* reader and chunks_eval for a writer without custom chunks whose out is
\* absent or chunked, else slices_eval over all the chunks.
C14_DispatchPriority ==
    (Dispatched /\ ev_result["chunked_eval"].path # "raised")
        => ev_result["chunked_eval"].path
               = PriorityPath(validate_inputs(ev_operands, ev_out))

\* A reader with an item and a fast path available went to slices_eval.
C14_Witness ==
    /\ Dispatched
    /\ ev_result["chunked_eval"].path = "slices_eval_item"
    /\ validate_inputs(ev_operands, ev_out).fast_path
    /\ ev_args.getitem

\* C15: the dispatcher calls chunks_eval or chunks_getitem only when all
\* the array operands have one shape, so that no operand has to broadcast.
C15_FastPathExcludesBroadcast ==
    (Dispatched /\ ev_result["chunked_eval"].path \in {"chunks_eval", "chunks_getitem"})
        => SameShapes

(***************************************************************************)
(* The first merge of a reduction, per result dtype: the output is created *)
(* when out is None, filled with the value chosen for the operation, and   *)
(* the partial result of the chunk is merged into its slot.                *)
(***************************************************************************)
\* np.inf and -np.inf among the small numbers of the model.
PosInf == 999

NegInf == -999

Dtypes == {"int8", "uint8", "float64", "bool"}

\* np.issubdtype(dtype, np.integer)
IsInteger(dtype) == dtype \in {"int8", "uint8"}

\* np.iinfo(dtype).max and np.iinfo(dtype).min
IInfoMax(dtype) == IF dtype = "int8" THEN 127 ELSE 255

IInfoMin(dtype) == IF dtype = "int8" THEN -128 ELSE 0

\* The conversion of a number to the dtype of an array (full(..., dtype=dtype)
\* and the assignment out[reduced_slice] = ...): integers wrap, a boolean
\* is whether the number is not zero, a float keeps the number.
CastTo(dtype, x) ==
    CASE dtype = "int8"  -> ((x + 128) % 256) - 128
      [] dtype = "uint8" -> x % 256
      [] dtype = "bool"  -> IF x # 0 THEN 1 ELSE 0
      [] dtype = "float64" ->
            IF x >= PosInf THEN PosInf ELSE IF x <= NegInf THEN NegInf ELSE x

\* The value out is created with when it is None.
FillValue(op, dtype) ==
    CASE op = "SUM"  -> CastTo(dtype, 0)
      [] op = "PROD" -> CastTo(dtype, 1)
      [] op = "MIN"  -> IF IsInteger(dtype) THEN CastTo(dtype, IInfoMax(dtype))
                        ELSE CastTo(dtype, PosInf)
      [] op = "MAX"  -> IF IsInteger(dtype) THEN CastTo(dtype, IInfoMin(dtype))
                        ELSE CastTo(dtype, NegInf)
      [] op = "ANY"  -> CastTo("bool", 0)
      [] op = "ALL"  -> CastTo("bool", 1)

\* The dtype of out: the dtype of the partial result, np.bool_ for ANY and ALL.
OutDtype(op, dtype) == IF op \in {"ANY", "ALL"} THEN "bool" ELSE dtype

\* out[reduced_slice] after the update with the partial result.
MergeSlot(op, dtype, slot, result) ==
    CastTo(OutDtype(op, dtype), Combine(op, slot, result))

\* The first pass through the update with out None.
FirstMerge(op, dtype, result) ==
    [t |-> "merged", fill |-> FillValue(op, dtype),
     slot |-> MergeSlot(op, dtype, FillValue(op, dtype), result)]

DoFirstMerge ==
    /\ CanCall("first_merge")
    /\ Record("first_merge",
              FirstMerge(ev_args.reduce.op, ev_args.dtype, ev_args.partial))

\* The partial results a chunk can give in each dtype.
DtypeValues(dtype) ==
    CASE dtype = "int8"  -> {-128, -2, -1, 0, 1, 2, 127}
      [] dtype = "uint8" -> {0, 1, 2, 254, 255}
      [] dtype = "bool"  -> {0, 1}
      [] dtype = "float64" -> {NegInf, -2, -1, 0, 1, 2, PosInf}

\* The result dtypes of an operation: ANY and ALL give booleans, SUM and
\* PROD of booleans give integers.
ResultDtypes(op) ==
    CASE op \in {"ANY", "ALL"} -> {"bool"}
      [] op \in {"SUM", "PROD"} -> Dtypes \ {"bool"}
      [] OTHER -> Dtypes

MergeInit ==
    /\ Idle
    /\ ev_operands = <<>>
    /\ ev_item = NoItem
    /\ ev_out = NoneOut
    /\ ev_args \in {a \in [udf : {FALSE}, grid : {1}, dtype : Dtypes,
                            reduce : {ReduceArgs(op, AxisNone, FALSE) : op \in ReduceOps},
                            partial : UNION {DtypeValues(d) : d \in Dtypes}] :
                        /\ a.dtype \in ResultDtypes(a.reduce.op)
                        /\ a.partial \in DtypeValues(a.dtype)}
    /\ ev_result = [s \in Entries |-> NotRun]

MergeNext == DoFirstMerge

MergeSpec == MergeInit /\ [][MergeNext]_vars

\* C16: the output of a reduction is created filled with the identity of
\* the operation, so that merging the first partial result into a fresh
\* slot gives exactly that partial result, for every result dtype.
C16_IdentityFill ==
    ev_result["first_merge"] # NotRun
        => ev_result["first_merge"].slot = ev_args.partial

\* The part of C16 that the code keeps: integer and float results.
IdentityFillOfNumbers ==
    (ev_result["first_merge"] # NotRun /\ ev_args.dtype # "bool")
        => ev_result["first_merge"].slot = ev_args.partial

(***************************************************************************)
(* The shape of the result of a reduction.                                 *)
(***************************************************************************)
\* The axes an axis argument names: all of them for None, the one of an
\* integer, those of a tuple.
NamedAxes(axis, ndim) ==
    CASE axis.t = "none"  -> {i \in 0..(ndim - 1) : TRUE}
      [] axis.t = "int"   -> {CHOOSE k \in axis.axes : TRUE}
      [] axis.t = "tuple" -> axis.axes

\* shape without the dimensions from position i on that are in axes.
RECURSIVE DropAxes(_, _, _)
DropAxes(shape, axes, i) ==
    IF i > Len(shape) THEN <<>>
    ELSE IF (i - 1) \in axes THEN DropAxes(shape, axes, i + 1)
    ELSE <<shape[i]>> \o DropAxes(shape, axes, i + 1)

OnesAtAxes(shape, axes) ==
    [i \in 1..Len(shape) |-> IF (i - 1) \in axes THEN 1 ELSE shape[i]]

ReferenceShape == ev_operands[RefPosition(ev_operands)].shape

Reduced == ev_result["reduce"] # NotRun /\ ev_result["reduce"].t = "array"

AxisInRange ==
    NamedAxes(ev_args.reduce.axis, Len(ReferenceShape))
        \subseteq 0..(Len(ReferenceShape) - 1)

C18_ReferenceIsBroadcastShape ==
    (Reduced /\ BroadcastRule(ArrayShapes))
        => /\ ReferenceShape = DimMax(ArrayShapes)
           /\ NamedAxes(ev_args.reduce.axis, Len(DimMax(ArrayShapes)))
                  \subseteq 0..(Len(DimMax(ArrayShapes)) - 1)
                => ev_result["reduce"].shape
                       = IF ev_args.reduce.keepdims
                         THEN OnesAtAxes(DimMax(ArrayShapes),
                                         NamedAxes(ev_args.reduce.axis,
                                                   Len(DimMax(ArrayShapes))))
                         ELSE DropAxes(DimMax(ArrayShapes),
                                       NamedAxes(ev_args.reduce.axis,
                                                 Len(DimMax(ArrayShapes))), 1)

\* The part of C18 that the code keeps: the reference is a chunked operand
\* with the most dimensions.
ReferenceHasMostDims ==
    Reduced
        => \A k \in 1..Len(ev_operands) :
               ev_operands[k].kind = "nd"
                   => Len(ev_operands[k].shape) <= Len(ReferenceShape)

(***************************************************************************)
(* Items with a step, handed to a lazy expression and to a remote array.   *)
(***************************************************************************)
StShapes == {<<3>>, <<2, 3>>}

StOperandLists ==
    UNION {{<<a>> : a \in NdOperandsOf(s, 1)} : s \in StShapes}
        \cup UNION {{<<a, ScalarOperand(2)>> : a \in NdOperandsOf(s, 1)} : s \in StShapes}

StItems ==
    {NoItem, BareItem(SliceEntry(1, 3)), BareItem(IntEntry(0)),
     BareItem(StepEntry(0, 3, 2)), BareItem(StepEntry(NoneV, NoneV, 2)),
     BareItem(StepEntry(0, 2, 1)), BareItem(StepEntry(1, 3, 3)),
     TupleItem(<<SliceEntry(0, 1), StepEntry(0, 3, 2)>>),
     TupleItem(<<IntEntry(0), StepEntry(NoneV, NoneV, 2)>>),
     TupleItem(<<StepEntry(0, 2, 2)>>)}

StepInit ==
    /\ Idle
    /\ ev_operands \in StOperandLists
    /\ ev_item \in StItems
    /\ ev_out = NoneOut
    /\ ev_args \in [udf : {FALSE}, grid : {1, 2}, reduce : {NoReduce}]
    /\ ev_result = [s \in Entries |-> NotRun]

StepNext ==
    \/ DoGetitem
    \/ DoEvalItem
    \/ DoRemoteGetitem

StepSpec == StepInit /\ [][StepNext]_vars

HasStep(item) ==
    \E i \in 1..Len(item.entries) :
        /\ item.entries[i].t = "slice"
        /\ "step" \in DOMAIN item.entries[i]
        /\ item.entries[i].step \notin {NoneV, 1}

\* C19: an item with a slice whose step is neither None nor 1 is rejected
\* with an error by __getitem__ and eval of a lazy expression and by the
\* slice encoding of the remote array, which then sends no request.
C19_StepRejected ==
    HasStep(ev_item)
        => /\ \A s \in {"getitem", "eval_item"} :
                  ev_result[s] # NotRun => ev_result[s] = RaisedOut
           /\ ev_result["remote_getitem"] # NotRun
                  => (ev_result["remote_getitem"].t = "raised"
                          /\ ~ev_result["remote_getitem"].sent)

\* The part of C19 that the code keeps: the remote array.
RemoteRejectsStep ==
    (HasStep(ev_item) /\ ev_result["remote_getitem"] # NotRun)
        => (ev_result["remote_getitem"].t = "raised"
                /\ ~ev_result["remote_getitem"].sent)

\* C20: after every call of update_expr, whether it returned or raised,
\* the flag that bypasses the overloaded equality holds the value it had
\* before the call.
C20_FlagRestored ==
    [][calls' # calls => disable_overloaded_equal' = disable_overloaded_equal]_vars

\* The part of C20 that the code keeps: a call of update_expr on a node
\* that returns leaves the flag cleared.
FlagClearedOnReturn ==
    [][(calls' # calls /\ last'.self # 0 /\ ~last'.raised)
           => ~disable_overloaded_equal']_vars

(***************************************************************************)
(* LazyUDF.eval(item, **kwargs), step by step on its prefilter path.       *)
(*   udf_run.chunked_eval  self.chunked_eval                               *)
(*   udf_run.item          "none" for item None                            *)
(*   udf_run.is_dict       cparams is a dictionary                         *)
(*   udf_run.cparams       its "nthreads" entry, NoneV when absent         *)
(*   udf_run.func          what the user function does: "ok" or "raises"   *)
(*   udf_run.cnthreads     self._cnthreads                                 *)
(*   udf_run.nthreads      the nthreads of res_eval.schunk.cparams         *)
(*   udf_run.prefilter     a prefilter is registered on res_eval           *)
(***************************************************************************)
\* blosc2.cparams_dflts["nthreads"]
cparams_dflts_nthreads == 8

UdfNThreads == {NoneV, 1, 2, 4, 8}

UdfCalls ==
    [pc : {"init"}, chunked_eval : BOOLEAN, item : {"none", "slice"},
     is_dict : BOOLEAN, cparams : UdfNThreads, func : {"ok", "raises"},
     cnthreads : {NoneV}, nthreads : {NoneV}, prefilter : {FALSE},
     forced : {FALSE}]

\* cparams.get("nthreads", blosc2.cparams_dflts["nthreads"])
GetNThreads(cparams) == IF cparams = NoneV THEN cparams_dflts_nthreads ELSE cparams

\* The restore that is skipped: the prefilter stays and nthreads stays 1.
UdfRestore_skipped(u) == [u EXCEPT !.pc = "returned"]

\* res_eval.schunk.remove_prefilter(...); cparams["nthreads"] = self._cnthreads
UdfRestore(u) ==
    [u EXCEPT !.pc = "returned", !.prefilter = FALSE, !.nthreads = u.cnthreads]

\* From the call to the registration of the prefilter, or to the return or
\* the exception of the paths that register none.
UdfEvalEnter ==
    /\ udf_run.pc = "init"
    /\ udf_run' =
          IF udf_run.item # "none" \/ udf_run.chunked_eval
          THEN [udf_run EXCEPT !.pc = "returned",
                               !.nthreads = GetNThreads(udf_run.cparams)]
          ELSE IF ~udf_run.is_dict
          THEN [udf_run EXCEPT !.pc = "raised"]               \* ValueError
          ELSE [udf_run EXCEPT !.pc = "applying",
                               !.cnthreads = GetNThreads(udf_run.cparams),
                               !.nthreads = 1,
                               !.prefilter = TRUE,
                               !.forced = TRUE]
    /\ UNCHANGED <<loop, exprVars, evVars, svVars, remoteVars>>

\* res_eval[...] = aux: the compression applies the function to every
\* chunk; an exception of the function either leaves the statement or is
\* dropped inside the compressor.
UdfApply ==
    /\ udf_run.pc = "applying"
    /\ \E propagates \in BOOLEAN :
          udf_run' = IF udf_run.func = "raises" /\ propagates
                     THEN [udf_run EXCEPT !.pc = "raised"]
                     ELSE [udf_run EXCEPT !.pc = "applied"]
    /\ UNCHANGED <<loop, exprVars, evVars, svVars, remoteVars>>

\* The two statements after the assignment, and the return.
UdfReturn ==
    /\ udf_run.pc = "applied"
    /\ udf_run' = UdfRestore(udf_run)
    /\ UNCHANGED <<loop, exprVars, evVars, svVars, remoteVars>>

UdfInit ==
    /\ NoNodes /\ EvIdle /\ SvIdle /\ RemoteIdle
    /\ loop = [pc |-> "idle"]
    /\ udf_run \in UdfCalls

UdfNext ==
    \/ UdfEvalEnter
    \/ UdfApply
    \/ UdfReturn

UdfSpec == UdfInit /\ [][UdfNext]_vars

UdfExited == udf_run.pc \in {"returned", "raised"}

\* C21: on the prefilter path of LazyUDF.eval the thread count of the
\* compression is saved and forced to 1 while the function is applied, and
\* however the call ends, by a return or by the function raising, the saved
\* thread count is back and the prefilter is removed.
C21_ThreadsRestored ==
    /\ udf_run.pc \in {"applying", "applied"}
          => (udf_run.nthreads = 1 /\ udf_run.prefilter
                  /\ udf_run.cnthreads = GetNThreads(udf_run.cparams))
    /\ (UdfExited /\ udf_run.forced)
          => (udf_run.nthreads = udf_run.cnthreads /\ ~udf_run.prefilter)

\* The part of C21 that the code keeps: the call that returns.
ThreadsRestoredOnReturn ==
    (udf_run.pc = "returned" /\ udf_run.forced)
        => (udf_run.nthreads = udf_run.cnthreads /\ ~udf_run.prefilter)

(***************************************************************************)
(* The chunk loop of the four strategies, statement by statement:          *)
(*   for nchunk in range(nchunks):                                         *)
(*       slice_ = ...; skip the chunk when the item does not intersect it  *)
(*       fetch the operands of the chunk                                   *)
(*       evaluate                                                          *)
(*       write (or merge) the result                                       *)
(* A fetch, an evaluation and a write can raise, which leaves the loop.    *)
(*   loop.hits    the chunks the item intersects (all without an item)     *)
(*   loop.events  the fetches and writes so far, in order                  *)
(*   loop.failed  a statement of the loop has raised                       *)
(***************************************************************************)
MaxChunks == 3

Strategies == {"chunks_eval", "chunks_getitem", "slices_eval", "reduce_slices"}

\* _slice is looked at by slices_eval and reduce_slices only.
Filters(strategy) == strategy \in {"slices_eval", "reduce_slices"}

Loops ==
    {[pc |-> "top", strategy |-> st, nchunks |-> n, hits |-> h, nchunk |-> 0,
      events |-> <<>>, failed |-> FALSE] :
        st \in Strategies, n \in 1..MaxChunks, h \in SUBSET (0..(MaxChunks - 1))}

LoopSteps(l) == l \in Loops /\ l.hits \subseteq 0..(l.nchunks - 1)
                    /\ (~Filters(l.strategy) => l.hits = 0..(l.nchunks - 1))

Event(kind, n) == [kind |-> kind, nchunk |-> n]

\* An exception that is swallowed: the loop goes on with the next chunk.
LoopRaise_continues(l) == [l EXCEPT !.pc = "top", !.nchunk = l.nchunk + 1]

\* An exception leaves the function.
LoopRaise(l) == [l EXCEPT !.pc = "raised"]

\* The head of the for statement and the test of the item.
LoopTop ==
    /\ loop.pc = "top"
    /\ loop' = IF loop.nchunk >= loop.nchunks THEN [loop EXCEPT !.pc = "returned"]
               ELSE IF loop.nchunk \notin loop.hits
               THEN [loop EXCEPT !.nchunk = loop.nchunk + 1]        \* continue
               ELSE [loop EXCEPT !.pc = "fetch"]
    /\ UNCHANGED <<udf_run, exprVars, evVars, svVars, remoteVars>>

\* value[slice_] or decompress_chunk(nchunk) of every operand
LoopFetch ==
    /\ loop.pc = "fetch"
    /\ \E raises \in BOOLEAN :
          loop' = IF raises
                  THEN LoopRaise([loop EXCEPT !.failed = TRUE, !.events =
                                     Append(loop.events, Event("fetch", loop.nchunk))])
                  ELSE [loop EXCEPT !.pc = "evaluate",
                                    !.events = Append(loop.events,
                                                      Event("fetch", loop.nchunk))]
    /\ UNCHANGED <<udf_run, exprVars, evVars, svVars, remoteVars>>

\* ne.evaluate(expression, chunk_operands), and the reduction of the result
LoopEvaluate ==
    /\ loop.pc = "evaluate"
    /\ \E raises \in BOOLEAN :
          loop' = IF raises THEN LoopRaise([loop EXCEPT !.failed = TRUE])
                  ELSE [loop EXCEPT !.pc = "write"]
    /\ UNCHANGED <<udf_run, exprVars, evVars, svVars, remoteVars>>

\* out[slice_] = result, out.schunk.update_data(nchunk, result), or
\* out[reduced_slice] = reduce_op.value(out[reduced_slice], result)
LoopWrite ==
    /\ loop.pc = "write"
    /\ \E raises \in BOOLEAN :
          loop' = IF raises THEN LoopRaise([loop EXCEPT !.failed = TRUE])
                  ELSE [loop EXCEPT !.pc = "top", !.nchunk = loop.nchunk + 1,
                                    !.events = Append(loop.events,
                                                      Event("write", loop.nchunk))]
    /\ UNCHANGED <<udf_run, exprVars, evVars, svVars, remoteVars>>

LoopInit ==
    /\ NoNodes /\ EvIdle /\ SvIdle /\ RemoteIdle
    /\ udf_run = [pc |-> "idle"]
    /\ loop \in {l \in Loops : LoopSteps(l)}

LoopNext ==
    \/ LoopTop
    \/ LoopFetch
    \/ LoopEvaluate
    \/ LoopWrite

LoopSpec == LoopInit /\ [][LoopNext]_vars

\* The events of one kind, in order.
EventsOf(kind) ==
    LET Is(e) == e.kind = kind IN SelectSeq(loop.events, Is)

Increasing(es) ==
    \A i, j \in 1..Len(es) : i < j => es[i].nchunk < es[j].nchunk

\* C22: in every strategy the chunks are fetched in strictly increasing
\* order, a chunk is written at most once and right after its own fetch,
\* that is before the fetch of any later chunk, and once a statement has
\* raised nothing more is fetched or written.
C22_RasterOrder ==
    /\ [](/\ Increasing(EventsOf("fetch"))
          /\ Increasing(EventsOf("write"))
          /\ \A i \in 1..Len(loop.events) :
                 loop.events[i].kind = "write"
                     => (i > 1 /\ loop.events[i - 1] = Event("fetch", loop.events[i].nchunk)))
    /\ [][loop.failed => loop'.events = loop.events]_vars

\* Two chunks written, then the fetch of the third raised.
C22_Witness ==
    /\ loop.pc = "raised"
    /\ loop.events = <<Event("fetch", 0), Event("write", 0), Event("fetch", 1),
                       Event("write", 1), Event("fetch", 2)>>

(***************************************************************************)
(* c2array: the context manager subscriber_auth_cookie over the module     *)
(* level _subscriber_data, and the requests of _xget and _xpost.           *)
(*   subscriber_data   {} or {'auth_cookie': c}; "" stands for a cookie    *)
(*                     that is None or empty                               *)
(*   threads[t].frames the contexts thread t is inside, innermost last:    *)
(*                     old (old_sub_data), cookie, pc ("saved" between the *)
(*                     two assignments of the entry, "in" in the body)     *)
(*   threads[t].hist   the assignments of the thread, stamped with their   *)
(*                     position among those of all the threads             *)
(*   requests          the requests sent: thread, the Cookie header, the   *)
(*                     cookie of the innermost context of the thread       *)
(***************************************************************************)
MaxDepth == 2

MaxEnters == 2

MaxRequests == 2

\* The contexts each of two concurrent threads enters.
MaxThreadEnters == 1

NoData == [t |-> "empty"]

CookieData(c) == [t |-> "cookie", auth_cookie |-> c]

CtxCookies == {"a", "b", ""}

InstCookies == {"i", ""}

\* A thread that has not entered any context and may enter n times.
NoThread(n) == [frames |-> <<>>, hist |-> <<>>, budget |-> n]

RECURSIVE Stamps(_, _)
Stamps(th, t) == IF t > Len(th) THEN 0 ELSE Len(th[t].hist) + Stamps(th, t + 1)

\* The position of the next assignment among those of all the threads.
Clock == Stamps(threads, 1) + 1

Enters(t) == Cardinality({i \in 1..Len(threads[t].hist) : threads[t].hist[i].kind = "read"})

Top(t) == threads[t].frames[Len(threads[t].frames)]

InBody(t) == IF Len(threads[t].frames) = 0 THEN TRUE ELSE Top(t).pc = "in"

\* The instance cookie preferred to the one of the context.
XCookie_instance_first(data, auth_cookie) ==
    IF auth_cookie # "" THEN auth_cookie
    ELSE IF data.t = "cookie" THEN data.auth_cookie ELSE ""

\* _subscriber_data.get('auth_cookie', auth_cookie), and the header that
\* "if auth_cookie:" sets: "" for no Cookie header.
XCookie(data, auth_cookie) ==
    IF data.t = "cookie" THEN data.auth_cookie ELSE auth_cookie

\* old_sub_data = _subscriber_data
CtxSave(t) ==
    /\ InBody(t)
    /\ Len(threads[t].frames) < MaxDepth
    /\ Enters(t) < threads[t].budget
    /\ \E c \in CtxCookies :
          threads' = [threads EXCEPT
                         ![t].frames = Append(@, [old |-> subscriber_data, cookie |-> c,
                                                  pc |-> "saved"]),
                         ![t].hist = Append(@, [kind |-> "read", at |-> Clock,
                                                cookie |-> c])]
    /\ UNCHANGED <<subscriber_data, requests, c2array, exprVars, evVars, svVars, runVars>>

\* _subscriber_data = {'auth_cookie': auth_cookie}; yield
CtxSet(t) ==
    /\ Len(threads[t].frames) > 0
    /\ Top(t).pc = "saved"
    /\ subscriber_data' = CookieData(Top(t).cookie)
    /\ threads' = [threads EXCEPT
                       ![t].frames[Len(threads[t].frames)].pc = "in",
                       ![t].hist = Append(@, [kind |-> "set", at |-> Clock,
                                              cookie |-> Top(t).cookie])]
    /\ UNCHANGED <<requests, c2array, exprVars, evVars, svVars, runVars>>

\* The value the exit of a context writes back.
CtxRestored_empty(frame) == NoData

CtxRestored(frame) == frame.old

\* finally: _subscriber_data = old_sub_data, after the body has returned
\* or raised.
CtxExit(t) ==
    /\ Len(threads[t].frames) > 0
    /\ Top(t).pc = "in"
    /\ \E raised \in BOOLEAN :
          /\ subscriber_data' = CtxRestored(Top(t))
          /\ threads' = [threads EXCEPT
                             ![t].frames = SubSeq(@, 1, Len(@) - 1),
                             ![t].hist = Append(@, [kind |-> "exit", at |-> Clock,
                                                    cookie |-> Top(t).cookie])]
    /\ UNCHANGED <<requests, c2array, exprVars, evVars, svVars, runVars>>

\* _xget(url, auth_cookie=auth_cookie) or _xpost(...) in thread t, with the
\* cookie of a C2Array instance.
XRequest(t) ==
    /\ InBody(t)
    /\ Len(requests) < MaxRequests
    /\ \E auth_cookie \in InstCookies :
          requests' = Append(requests,
                             [thread |-> t,
                              depth |-> Len(threads[t].frames),
                              innermost |-> IF Len(threads[t].frames) = 0 THEN ""
                                            ELSE Top(t).cookie,
                              instance |-> auth_cookie,
                              cookie |-> XCookie(subscriber_data, auth_cookie)])
    /\ UNCHANGED <<subscriber_data, threads, c2array, exprVars, evVars, svVars, runVars>>

CookieNext ==
    \/ \E t \in 1..Len(threads) : CtxSave(t)
    \/ \E t \in 1..Len(threads) : CtxSet(t)
    \/ \E t \in 1..Len(threads) : CtxExit(t)
    \/ \E t \in 1..Len(threads) : XRequest(t)

\* One thread.
CookieInit ==
    /\ NoNodes /\ EvIdle /\ SvIdle /\ RunIdle
    /\ subscriber_data = NoData
    /\ threads = <<NoThread(MaxEnters)>>
    /\ requests = <<>>
    /\ c2array = [pc |-> "idle"]

CookieSpec == CookieInit /\ [][CookieNext]_vars

\* C23: in one thread, the exit of a context, after a return or an
\* exception of its body, leaves the subscriber data as it was right before
\* the matching entry, and a request sent inside a context carries the
\* cookie of the innermost context, whatever the cookie of the instance.
C23_Reentrant ==
    /\ [](\A i \in 1..Len(requests) :
              requests[i].depth > 0 => requests[i].cookie = requests[i].innermost)
    /\ [][\A t \in 1..Len(threads) :
              (Len(threads'[t].frames) > Len(threads[t].frames)
                   => threads'[t].frames[Len(threads'[t].frames)].old = subscriber_data)
              /\ (Len(threads'[t].frames) < Len(threads[t].frames)
                      => subscriber_data' = Top(t).old)]_vars

\* Two contexts nested, a request in the inner one, and both left again.
C23_Witness ==
    /\ Len(threads) = 1
    /\ threads[1].frames = <<>>
    /\ Len(threads[1].hist) = 6
    /\ threads[1].hist[3].kind = "read"
    /\ threads[1].hist[1].cookie # threads[1].hist[3].cookie
    /\ \E i \in 1..Len(requests) :
          requests[i].depth = 2 /\ requests[i].instance = "i"
              /\ requests[i].cookie = threads[1].hist[3].cookie
    /\ subscriber_data = NoData

\* Two threads over the one _subscriber_data.
ThreadsInit ==
    /\ NoNodes /\ EvIdle /\ SvIdle /\ RunIdle
    /\ subscriber_data = NoData
    /\ threads = <<NoThread(MaxThreadEnters), NoThread(MaxThreadEnters)>>
    /\ requests = <<>>
    /\ c2array = [pc |-> "idle"]

ThreadsSpec == ThreadsInit /\ [][CookieNext]_vars

AllOut == \A t \in 1..Len(threads) : threads[t].frames = <<>>

\* Thread t entered one context and left it, thread u did the same, u
\* entering after t was in and leaving after t had left.
Overlapped(t, u) ==
    /\ Len(threads[t].hist) = 3 /\ Len(threads[u].hist) = 3
    /\ threads[t].hist[2].at < threads[u].hist[1].at
    /\ threads[u].hist[1].at < threads[t].hist[3].at
    /\ threads[t].hist[3].at < threads[u].hist[3].at

\* C24: with two threads the contexts interfere.  A request of a thread
\* inside its own context carries another cookie than that of its context
\* only when another thread has assigned the data since; and when two
\* threads overlap without nesting, the first to enter being the first to
\* leave, the data that stays after both have left is the cookie of the
\* first thread, not the value from before either entered.
C24_NotConcurrencySafe ==
    /\ \A i \in 1..Len(requests) :
          (requests[i].depth > 0 /\ requests[i].cookie # requests[i].innermost)
              => \E u \in 1..Len(threads) :
                     u # requests[i].thread /\ threads[u].hist # <<>>
    /\ \A t, u \in 1..Len(threads) :
          (t # u /\ AllOut /\ Overlapped(t, u))
              => subscriber_data = CookieData(threads[t].hist[2].cookie)

\* Thread 1 enters with cookie "a", thread 2 with "b"; a request of thread 1
\* in its context carried "b"; thread 1 left, then thread 2, and the data
\* is the cookie of thread 1.
C24_Witness ==
    /\ Len(threads) = 2
    /\ AllOut /\ Overlapped(1, 2)
    /\ threads[1].hist[2].cookie = "a" /\ threads[2].hist[2].cookie = "b"
    /\ \E i \in 1..Len(requests) :
          requests[i].thread = 1 /\ requests[i].depth = 1
              /\ requests[i].innermost = "a" /\ requests[i].cookie = "b"
    /\ subscriber_data = CookieData("a")

(***************************************************************************)
(* C2Array.__init__(path, urlbase, auth_cookie), request by request.  The  *)
(* subscriber answers a request with a document, with an HTTP status error *)
(* (raise_for_status) or not at all (a transport error).                   *)
(*   c2array.pc      "init", "info", "subscribe", "retry", "done", or      *)
(*                   "raised" with the exception in c2array.error          *)
(*   c2array.meta    self.meta, NoneV while unset                          *)
(*   requests        the requests sent: kind, url target, answer           *)
(***************************************************************************)
C2Paths == {<<"/", "r", "/", "f">>, <<"r", "/", "f">>, <<"r", "/", "d", "/", "f">>,
            <<"r">>, <<>>}

C2Metas == {1, 2, 3}

Answers == {[t |-> "status"], [t |-> "transport"]} \cup {[t |-> "ok", json |-> m] : m \in C2Metas}

\* path.startswith('/')
StartsWithSlash(path) == Len(path) > 0 /\ path[1] = "/"

\* The position of the first '/' of path, 0 when there is none.
FirstSlash(path) ==
    IF \E i \in 1..Len(path) : path[i] = "/"
    THEN CHOOSE i \in 1..Len(path) : path[i] = "/" /\ \A j \in 1..(i - 1) : path[j] # "/"
    ELSE 0

\* path.split('/', 1)
SplitOnce(path) ==
    IF FirstSlash(path) = 0 THEN <<path>>
    ELSE <<SubSeq(path, 1, FirstSlash(path) - 1),
           SubSeq(path, FirstSlash(path) + 1, Len(path))>>

C2Raise(c, error) == [c EXCEPT !.pc = "raised", !.error = error]

Sent(kind, target, answer) == [kind |-> kind, target |-> target, answer |-> answer]

\* The statements before the first request.
C2Begin ==
    /\ c2array.pc = "init"
    /\ c2array' =
          IF StartsWithSlash(c2array.path) THEN C2Raise(c2array, "ValueError")
          ELSE IF Len(SplitOnce(c2array.path)) # 2
          THEN C2Raise(c2array, "ValueError")       \* not enough values to unpack
          ELSE [c2array EXCEPT !.pc = "info", !.root = SplitOnce(c2array.path)[1]]
    /\ UNCHANGED <<subscriber_data, threads, requests, exprVars, evVars, svVars, runVars>>

\* self.meta = get(urlpath, auth_cookie=self.auth_cookie)
C2Info ==
    /\ c2array.pc = "info"
    /\ \E a \in Answers :
          /\ requests' = Append(requests, Sent("info", c2array.path, a))
          /\ c2array' = CASE a.t = "ok" -> [c2array EXCEPT !.pc = "done", !.meta = a.json]
                           [] a.t = "status" -> [c2array EXCEPT !.pc = "subscribe"]
                           [] a.t = "transport" -> C2Raise(c2array, "TransportError")
    /\ UNCHANGED <<subscriber_data, threads, exprVars, evVars, svVars, runVars>>

\* A failed subscription that is ignored.
C2Subscribed_ignored(c, a) == [c EXCEPT !.pc = "retry"]

\* subscribe(self.root, self.urlbase, self.auth_cookie): _xpost raises for
\* an HTTP status error and for a transport error.
C2Subscribed(c, a) ==
    CASE a.t = "ok" -> [c EXCEPT !.pc = "retry"]
      [] a.t = "status" -> C2Raise(c, "HTTPStatusError")
      [] a.t = "transport" -> C2Raise(c, "TransportError")

C2Subscribe ==
    /\ c2array.pc = "subscribe"
    /\ \E a \in Answers :
          /\ requests' = Append(requests, Sent("subscribe", c2array.root, a))
          /\ c2array' = C2Subscribed(c2array, a)
    /\ UNCHANGED <<subscriber_data, threads, exprVars, evVars, svVars, runVars>>

\* The second get, inside the handler of the first HTTPStatusError.
C2Retry ==
    /\ c2array.pc = "retry"
    /\ \E a \in Answers :
          /\ requests' = Append(requests, Sent("info", c2array.path, a))
          /\ c2array' = CASE a.t = "ok" -> [c2array EXCEPT !.pc = "done", !.meta = a.json]
                           [] a.t = "status" -> C2Raise(c2array, "FileNotFoundError")
                           [] a.t = "transport" -> C2Raise(c2array, "TransportError")
    /\ UNCHANGED <<subscriber_data, threads, exprVars, evVars, svVars, runVars>>

C2Init ==
    /\ NoNodes /\ EvIdle /\ SvIdle /\ RunIdle
    /\ subscriber_data = NoData
    /\ threads = <<>>
    /\ requests = <<>>
    /\ c2array \in [pc : {"init"}, path : C2Paths, root : {<<>>}, meta : {NoneV},
                     error : {"none"}, auth_cookie : InstCookies]

C2Next ==
    \/ C2Begin
    \/ C2Info
    \/ C2Subscribe
    \/ C2Retry

C2Spec == C2Init /\ [][C2Next]_vars

C2Exited == c2array.pc \in {"done", "raised"}

Kinds == [i \in 1..Len(requests) |-> requests[i].kind]

\* C25: a path that starts with '/' is rejected before any request; any
\* other path has the info request sent first; a subscribe is sent at most
\* once, only after the info request got an HTTP status error, and is
\* followed by exactly one more info request; a status error on that one
\* gives FileNotFoundError; and the metadata kept by a constructor that
\* returns is the document of the last info request.
C25_ConstructorProtocol ==
    /\ StartsWithSlash(c2array.path)
          => (requests = <<>> /\ (C2Exited => c2array.error = "ValueError"))
    /\ (C2Exited /\ ~StartsWithSlash(c2array.path))
          => (Len(requests) >= 1 /\ requests[1].kind = "info")
    /\ \A i \in 1..Len(requests) :
          requests[i].kind = "subscribe"
              => (i = 2 /\ requests[1].kind = "info" /\ requests[1].answer.t = "status")
    /\ (C2Exited /\ \E i \in 1..Len(requests) : requests[i].kind = "subscribe")
          => Kinds = <<"info", "subscribe", "info">>
    /\ (C2Exited /\ Len(requests) = 3 /\ requests[3].answer.t = "status")
          => c2array.error = "FileNotFoundError"
    /\ c2array.pc = "done"
          => (requests[Len(requests)].kind = "info"
                  /\ requests[Len(requests)].answer = [t |-> "ok", json |-> c2array.meta])

\* The part of C25 that the code keeps: the order of the requests, the
\* FileNotFoundError of the retry and the metadata.
ConstructorRequestOrder ==
    /\ StartsWithSlash(c2array.path)
          => (requests = <<>> /\ (C2Exited => c2array.error = "ValueError"))
    /\ Kinds \in {<<>>, <<"info">>, <<"info", "subscribe">>, <<"info", "subscribe", "info">>}
    /\ Len(requests) >= 2 => requests[1].answer.t = "status"
    /\ Len(requests) = 3 => requests[2].answer.t = "ok"
    /\ (C2Exited /\ Len(requests) = 3 /\ requests[3].answer.t = "status")
          => c2array.error = "FileNotFoundError"
    /\ c2array.pc = "done"
          => (requests[Len(requests)].kind = "info"
                  /\ requests[Len(requests)].answer = [t |-> "ok", json |-> c2array.meta])

(***************************************************************************)
(* The operand loops of slices_eval and of reduce_slices on their own: the *)
(* buffers fetched for every chunk of the grid and every operand.          *)
(***************************************************************************)
\* shape and chunks of slices_eval: the grid it iterates over.
SlicesGrid(operands, out, auto_chunks) ==
    LET arrs   == ArrayPositions(operands)
        nds    == NdPositions(operands)
        shape  == IF out.t = "none"
                  THEN compute_broadcast_shape(ShapesOf(operands, arrs))
                  ELSE IF Len(nds) = 0 THEN out.shape
                  ELSE operands[nds[1]].shape
        chunks == IF out.t = "none" \/ Len(nds) = 0
                  THEN [i \in 1..Len(shape) |-> Min2(auto_chunks[i], shape[i])]
                  ELSE operands[nds[1]].chunks
    IN  [shape |-> shape, chunks |-> chunks]

\* shape and chunks of reduce_slices: those of the reference operand.
ReduceGrid(operands) ==
    [shape |-> operands[RefPosition(operands)].shape,
     chunks |-> operands[RefPosition(operands)].chunks]

Fetched(grid, bufs) == [t |-> "fetched", shape |-> grid.shape, chunks |-> grid.chunks, bufs |-> bufs]

SlicesFetches(operands, out, auto_chunks) ==
    IF out.t = "none" /\ Len(ArrayPositions(operands)) = 0 THEN RaisedOut
    ELSE LET g == SlicesGrid(operands, out, auto_chunks)
         IN  Fetched(g, [n \in 0..(NChunks(g.shape, g.chunks) - 1) |->
                            [k \in 1..Len(operands) |->
                                FetchSlice(operands[k], g.shape,
                                           ChunkSlice(g.shape, g.chunks, n))]])

ReduceFetches(operands) ==
    IF RefPosition(operands) = 0 THEN RaisedOut
    ELSE LET g == ReduceGrid(operands)
         IN  Fetched(g, [n \in 0..(NChunks(g.shape, g.chunks) - 1) |->
                            [k \in 1..Len(operands) |->
                                ReduceFetch(operands[k], g.shape,
                                            ChunkSlice(g.shape, g.chunks, n))]])

DoFetch ==
    /\ CanCall("fetch")
    /\ Record("fetch", SlicesFetches(ev_operands, ev_out, GridChunks(ev_args)))

DoReduceFetch ==
    /\ CanCall("reduce_fetch")
    /\ Record("reduce_fetch", ReduceFetches(ev_operands))

FetchInit ==
    /\ Idle
    /\ ev_operands \in EvOperandLists
    /\ ev_item = NoItem
    /\ ev_out \in EvOuts(ev_operands)
    /\ ev_args \in [udf : {FALSE}, grid : {1, 2}, reduce : {NoReduce}]
    /\ ev_result = [s \in Entries |-> NotRun]

FetchNext ==
    \/ DoFetch
    \/ DoReduceFetch

FetchSpec == FetchInit /\ [][FetchNext]_vars

\* The buffer is what NumPy needs in place of the chunk slice of the
\* operand broadcast to shape: it is an array, it has elements, it
\* broadcasts to the shape of the slice, and it reads the same elements.
BroadcastEqual(buf, value, slice_) ==
    /\ buf.t = "array"
    /\ \A i \in 1..Len(buf.shape) : buf.shape[i] > 0
    /\ BroadcastsTo(buf.shape, SliceShape(slice_))
    /\ \A idx \in AllIdx(SliceShape(slice_)) :
           BroadcastRead(buf, idx)
               = BroadcastRead(AsBuf(value),
                               [i \in 1..Len(idx) |-> idx[i] + slice_[i].start])

FetchesBroadcastEqual(r) ==
    r.t = "fetched" =>
        \A n \in DOMAIN r.bufs : \A k \in 1..Len(ev_operands) :
            (ev_operands[k].kind # "scalar"
                 /\ BroadcastsTo(ev_operands[k].shape, r.shape))
                => BroadcastEqual(r.bufs[n][k], ev_operands[k],
                                  ChunkSlice(r.shape, r.chunks, n))

\* C26: in the generic and in the reduction path, the buffer fetched for a
\* chunk slice and an array operand whose shape broadcasts to the shape of
\* the reference equals, under broadcasting, the chunk slice of the operand
\* broadcast to that shape; it is not empty and the fetch does not fail.
C26_FetchBroadcastEqual ==
    /\ FetchesBroadcastEqual(ev_result["fetch"])
    /\ FetchesBroadcastEqual(ev_result["reduce_fetch"])

\* The same for the operands of the shape of the reference itself: the
\* fetch of an operand that needs no broadcasting is the chunk slice.
FetchSameShape ==
    \A s \in {"fetch", "reduce_fetch"} :
        ev_result[s].t = "fetched" =>
            \A n \in DOMAIN ev_result[s].bufs : \A k \in 1..Len(ev_operands) :
                (ev_operands[k].kind # "scalar"
                     /\ ev_operands[k].shape = ev_result[s].shape)
                    => BroadcastEqual(ev_result[s].bufs[n][k], ev_operands[k],
                                      ChunkSlice(ev_result[s].shape,
                                                 ev_result[s].chunks, n))

(***************************************************************************)
(* LazyExpr.shape and the operators that add operands.  ev_operands is     *)
(* self.operands and ev_result["shape"] the outcome of the last read of    *)
(* the property; self._shape exists once a read has returned.              *)
(***************************************************************************)
MaxOperands == 3

ShShapes == {<<1>>, <<3>>, <<1, 3>>, <<2, 3>>}

ShOperands ==
    {NdOperand(s, s, s, Data(s, 1)) : s \in ShShapes}
        \cup {NpOperand(s, Data(s, 1)) : s \in ShShapes}
        \cup {ScalarOperand(2)}

HasShapeAttr == ev_result["shape"].t = "shape"

\* LazyExpr.shape: self._shape when the attribute exists, else the shape
\* validate_inputs reports, which is kept in self._shape.
ShapeProperty(operands, memo) ==
    IF memo.t = "shape" THEN memo
    ELSE LET v == validate_inputs(operands, NoneOut)
         IN  IF v.raised THEN RaisedOut ELSE [t |-> "shape", shape |-> v.shape]

ReadShape ==
    /\ calls < MaxCalls
    /\ calls' = calls + 1
    /\ ev_result' = [ev_result EXCEPT !["shape"] = ShapeProperty(ev_operands, @)]
    /\ UNCHANGED <<ev_operands, ev_item, ev_out, ev_args, nodes,
                   disable_overloaded_equal, last, svVars, runVars, remoteVars>>

\* The operands of self after update_expr with an array or scalar value:
\* a scalar is written into the expression, an array that is not among
\* the operands yet is added under the next name.
UpdateOperands(operands, value) ==
    IF value.kind = "scalar" THEN operands
    ELSE IF \E i \in 1..Len(operands) : operands[i] = value THEN operands
    ELSE Append(operands, value)

\* expr + value, expr += value, value + expr: self is updated in place.
AddOperand ==
    /\ calls < MaxCalls
    /\ calls' = calls + 1
    /\ \E value \in ShOperands :
          /\ Len(UpdateOperands(ev_operands, value)) <= MaxOperands
          /\ ev_operands' = UpdateOperands(ev_operands, value)
    /\ UNCHANGED <<ev_item, ev_out, ev_args, ev_result, nodes,
                   disable_overloaded_equal, last, svVars, runVars, remoteVars>>

ShapeInit ==
    /\ Idle
    /\ ev_operands \in {<<a>> : a \in ShOperands \ {ScalarOperand(2)}}
    /\ ev_item = NoItem
    /\ ev_out = NoneOut
    /\ ev_args = [udf |-> FALSE, grid |-> 1, reduce |-> NoReduce]
    /\ ev_result = [s \in Entries |-> NotRun]

ShapeNext ==
    \/ ReadShape
    \/ AddOperand

ShapeSpec == ShapeInit /\ [][ShapeNext]_vars

\* C27: the shape kept by the shape property of an expression is the
\* broadcast shape of the operands the expression has now, whatever
\* operands the operators have added since it was first read.
C27_MemoizedShape ==
    (HasShapeAttr /\ BroadcastRule(ArrayShapes))
        => ev_result["shape"].shape = DimMax(ArrayShapes)

\* What the property does keep: once read, the shape never changes.
ShapeNeverChanges ==
    [][HasShapeAttr => ev_result'["shape"] = ev_result["shape"]]_vars

(***************************************************************************)
(* Validation of chunked operands of every chunk and block shape, with     *)
(* outputs of every shape, chunk shape and block shape.                    *)
(***************************************************************************)
FpShapes == {<<3>>, <<2, 2>>, <<1, 2>>}

FpOperands ==
    UNION {NdOperandsOf(s, 1) : s \in FpShapes}
        \cup {NpOperand(s, Data(s, 2)) : s \in {<<3>>, <<2, 2>>}}
        \cup {ScalarOperand(2)}

FpOperandLists ==
    {<<a>> : a \in FpOperands} \cup {<<a, b>> : a \in FpOperands, b \in FpOperands}

FpOuts ==
    {NoneOut, Full(<<3>>, 7), Full(<<2, 2>>, 7)}
        \cup {NdBuf(o.shape, o.chunks, o.blocks, o.data) :
                  o \in UNION {NdOperandsOf(s, 1) : s \in FpShapes}}

FastPathInit ==
    /\ Idle
    /\ ev_operands \in FpOperandLists
    /\ ev_item = NoItem
    /\ ev_out \in FpOuts
    /\ ev_args = [udf |-> FALSE, grid |-> 1, reduce |-> NoReduce]
    /\ ev_result = [s \in Entries |-> NotRun]

FastPathNext == DoValidate

FastPathSpec == FastPathInit /\ [][FastPathNext]_vars

\* The chunked operands, in order.
Chunked == [k \in 1..Len(NdPositions(ev_operands)) |-> ev_operands[NdPositions(ev_operands)[k]]]

SameGrid(a, b) == a.chunks = b.chunks /\ a.blocks = b.blocks

\* C28: validate_inputs reports the fast path exactly when every chunked
\* operand, and the output when it is chunked, has the chunks and blocks
\* of the first chunked operand and every chunked operand has
\* blocks[1:] = chunks[1:]; never without a chunked operand; and it raises
\* for a chunked output whose shape is not that of the first chunked
\* operand.
C28_FastPathCondition ==
    ev_result["validate"] # NotRun =>
        /\ ~ev_result["validate"].raised =>
               (ev_result["validate"].fast_path <=>
                    /\ Len(Chunked) > 0
                    /\ \A k \in 1..Len(Chunked) :
                           /\ SameGrid(Chunked[k], Chunked[1])
                           /\ Tail(Chunked[k].blocks) = Tail(Chunked[k].chunks)
                    /\ IsNdOut(ev_out) => SameGrid(ev_out, Chunked[1]))
        /\ (Len(Chunked) > 0 /\ IsNdOut(ev_out) /\ ev_out.shape # Chunked[1].shape)
               => ev_result["validate"].raised

\* Two chunked operands of two dimensions and a chunked output on one
\* grid: the fast path is reported.
C28_Witness ==
    /\ ev_result["validate"] # NotRun
    /\ ~ev_result["validate"].raised
    /\ ev_result["validate"].fast_path
    /\ Len(Chunked) = 2
    /\ Chunked[1].shape = <<2, 2>>
    /\ IsNdOut(ev_out)

(***************************************************************************)
(* The chunk grid walked by chunks_eval and slices_eval: for a reference   *)
(* of a shape and a chunk shape, chunk after chunk, the global slice, the  *)
(* local shape chunks_, the full_chunk flag, and how many times each       *)
(* element of the extended shape has been written.                         *)
(***************************************************************************)
MaxSide == 3

GridShapes == UNION {[1..n -> 1..MaxSide] : n \in 1..MaxNdim}

Grids == {[shape |-> s, chunks |-> c] : s \in GridShapes, c \in UNION {Boxes(s) : s \in GridShapes}}

GridStart(shape, chunks) ==
    [pc |-> "grid", shape |-> shape, chunks |-> chunks, nchunk |-> 0, visited |-> <<>>,
     written |-> [idx \in AllIdx(ExtShape(shape, chunks)) |-> 0]]

InSlice(idx, slice_) ==
    \A i \in 1..Len(slice_) : slice_[i].start <= idx[i] /\ idx[i] < slice_[i].stop

\* One iteration of `for nchunk in range(nchunks)` with the assignment
\* out[slice_] = result at its end.
VisitChunk ==
    /\ loop.pc = "grid"
    /\ loop.nchunk < NChunks(loop.shape, loop.chunks)
    /\ LET slice_      == ChunkSlice(loop.shape, loop.chunks, loop.nchunk)
           chunks_     == SliceShape(slice_)
           has_padding == HasPadding(loop.shape, loop.chunks)
           full_chunk  == chunks_ = loop.chunks /\ ~has_padding
       IN  loop' = [loop EXCEPT
                       !.nchunk = @ + 1,
                       !.visited = Append(@, [slice_ |-> slice_, chunks_ |-> chunks_,
                                              full_chunk |-> full_chunk]),
                       !.written = [idx \in DOMAIN @ |->
                                       IF InSlice(idx, slice_) THEN @[idx] + 1 ELSE @[idx]]]
    /\ UNCHANGED <<udf_run, exprVars, evVars, svVars, remoteVars>>

GridInit ==
    /\ NoNodes /\ EvIdle /\ SvIdle /\ RemoteIdle
    /\ udf_run = [pc |-> "idle"]
    /\ \E g \in Grids :
          /\ g.chunks \in Boxes(g.shape)
          /\ loop = GridStart(g.shape, g.chunks)

GridNext == VisitChunk

GridSpec == GridInit /\ [][GridNext]_vars

GridDone == loop.nchunk = NChunks(loop.shape, loop.chunks)

\* The reference holds a whole number of chunks along every dimension.
WholeChunks == \A i \in 1..Len(loop.shape) : loop.shape[i] % loop.chunks[i] = 0

\* C29: the global slices of the chunks 0 .. nchunks-1 are not empty, do
\* not overlap and together are the index space of the reference; every
\* local shape is at most the chunk shape; a chunk is flagged full exactly
\* when its local shape is the chunk shape and the reference has no
\* padding; a full walk writes every element of the reference once and
\* nothing else.
C29_ChunkPartition ==
    /\ \A n \in 1..Len(loop.visited) :
           /\ \A i \in 1..Len(loop.shape) :
                  /\ loop.visited[n].slice_[i].start < loop.visited[n].slice_[i].stop
                  /\ loop.visited[n].chunks_[i] <= loop.chunks[i]
                  /\ loop.visited[n].chunks_[i]
                         = loop.visited[n].slice_[i].stop - loop.visited[n].slice_[i].start
           /\ loop.visited[n].full_chunk
                  <=> (loop.visited[n].chunks_ = loop.chunks /\ WholeChunks)
    /\ \A n, m \in 1..Len(loop.visited) :
           n # m => ~\E idx \in DOMAIN loop.written :
                        /\ InSlice(idx, loop.visited[n].slice_)
                        /\ InSlice(idx, loop.visited[m].slice_)
    /\ \A idx \in DOMAIN loop.written :
           /\ loop.written[idx] <= 1
           /\ idx \notin AllIdx(loop.shape) => loop.written[idx] = 0
           /\ (GridDone /\ idx \in AllIdx(loop.shape)) => loop.written[idx] = 1

\* A finished walk of a padded grid of two dimensions: (3, 3) in chunks of
\* (2, 2), four chunks of which only the first has the chunk shape.
C29_Witness ==
    /\ loop.pc = "grid"
    /\ loop.shape = <<3, 3>>
    /\ loop.chunks = <<2, 2>>
    /\ GridDone
    /\ Len(loop.visited) = 4
    /\ loop.visited[4].chunks_ = <<1, 1>>

(***************************************************************************)
(* C2Array.__getitem__ on indexes of integers and slices of step None or   *)
(* 1, and the index that the string sent to the subscriber denotes in      *)
(* Python's slice notation.                                                *)
(***************************************************************************)
RmEntries ==
    {IntEntry(k) : k \in {0, 1, 10}}
        \cup {SliceEntry(a, b) : a \in {NoneV, 0, 2}, b \in {NoneV, 0, 3, 10}}
        \cup {StepEntry(a, b, st) : a \in {NoneV, 2}, b \in {NoneV, 0, 3}, st \in {NoneV, 1}}

RmItems ==
    {NoItem, TupleItem(<<>>)}
        \cup {BareItem(e) : e \in RmEntries}
        \cup {TupleItem(<<e>>) : e \in RmEntries}
        \cup {TupleItem(<<e, f>>) : e \in RmEntries, f \in RmEntries}

RemoteInit ==
    /\ Idle
    /\ ev_operands = <<>>
    /\ ev_item \in RmItems
    /\ ev_out = NoneOut
    /\ ev_args = [udf |-> FALSE, grid |-> 1, reduce |-> NoReduce]
    /\ ev_result = [s \in Entries |-> NotRun]

RemoteNext == DoRemoteGetitem

RemoteSpec == RemoteInit /\ [][RemoteNext]_vars

\* The position of the first c of s, 0 when there is none.
FirstOf(s, c) ==
    IF \E i \in 1..Len(s) : s[i] = c
    THEN CHOOSE i \in 1..Len(s) : s[i] = c /\ \A j \in 1..(i - 1) : s[j] # c
    ELSE 0

\* s split at every c.
RECURSIVE SplitOn(_, _)
SplitOn(s, c) ==
    IF FirstOf(s, c) = 0 THEN <<s>>
    ELSE <<SubSeq(s, 1, FirstOf(s, c) - 1)>>
             \o SplitOn(SubSeq(s, FirstOf(s, c) + 1, Len(s)), c)

Strip(s) == IF Len(s) > 0 /\ s[1] = " " THEN Tail(s) ELSE s

\* The index a string of the form "a:b, c, :d" denotes: an integer for a
\* part without a colon, else a slice whose missing bounds are None.
DenotedPart(part) ==
    IF FirstOf(part, ":") = 0 THEN IntEntry(ParseInt(part))
    ELSE LET lo == SubSeq(part, 1, FirstOf(part, ":") - 1)
             hi == SubSeq(part, FirstOf(part, ":") + 1, Len(part))
         IN  SliceEntry(IF lo = <<>> THEN NoneV ELSE ParseInt(lo),
                        IF hi = <<>> THEN NoneV ELSE ParseInt(hi))

Denoted(str) ==
    IF str = <<>> THEN <<>>
    ELSE [i \in 1..Len(SplitOn(str, ",")) |-> DenotedPart(Strip(SplitOn(str, ",")[i]))]

\* The range an entry selects along its dimension: a start of None is 0,
\* a stop of None is the end of the dimension.
RangeOf(e) ==
    [t |-> e.t, start |-> IF e.start = NoneV THEN 0 ELSE e.start, stop |-> e.stop]

\* The ranges an index selects along the first dimensions; a dimension
\* without an entry is selected whole.
RangesOf(entries) ==
    [d \in 1..MaxNdim |->
        IF d <= Len(entries) THEN RangeOf(entries[d])
        ELSE RangeOf(SliceEntry(NoneV, NoneV))]

RemoteSent == ev_result["remote_getitem"] # NotRun /\ ev_result["remote_getitem"].sent

\* C30: for an index of integers and slices of step None or 1, the string
\* sent denotes the ranges of the index: the same start and stop along
\* every dimension and the same number of integer and slice entries; a
\* stop of 0 is not turned into an open end and no entry is left out.
C30_SliceStringFaithful ==
    ev_result["remote_getitem"] # NotRun =>
        /\ ev_result["remote_getitem"].sent
        /\ RangesOf(Denoted(ev_result["remote_getitem"].slice_)) = RangesOf(ev_item.entries)
        /\ ev_result["remote_getitem"].slice_ # <<>>
               => Len(Denoted(ev_result["remote_getitem"].slice_)) = Len(ev_item.entries)

HasZero(item) ==
    \E i \in 1..Len(item.entries) :
        item.entries[i].t = "slice" /\ item.entries[i].stop = 0

\* The part of C30 that the code keeps: an index without a slice of stop 0
\* is sent as a string that denotes it, entry by entry.
SliceStringWithoutZero ==
    (ev_result["remote_getitem"] # NotRun /\ ~HasZero(ev_item)) =>
        /\ ev_result["remote_getitem"].sent
        /\ RangesOf(Denoted(ev_result["remote_getitem"].slice_)) = RangesOf(ev_item.entries)
        /\ ev_result["remote_getitem"].slice_ # <<>>
               => Len(Denoted(ev_result["remote_getitem"].slice_)) = Len(ev_item.entries)

Init == ExprInit /\ EvIdle /\ SvIdle

Next == ExprNext

Spec == Init /\ [][Next]_vars

====
